---- MODULE Spec2Model ----
(***************************************************************************)
(* Backtest core of stock_pal: TradingEngine, TradingRulesValidator,       *)
(* MatchingEngine, RiskManager.check_order_risk and the day loop of        *)
(* BacktestOrchestrator.run.                                               *)
(*                                                                         *)
(* Numbers.  The source computes in binary floating point.  The model      *)
(* computes the same expressions exactly, in integers:                     *)
(*   - a price is a whole number of cents (0.01 yuan);                     *)
(*   - money (cash, amount, fees, equity) is a whole number of units of    *)
(*     0.00001 yuan, so 1 cent = 1000 units;                               *)
(*   - a rate (commission_rate, stamp_tax_rate, the transfer-fee rate) is  *)
(*     a whole number of 1/100000, so 0.0003 is 30;                        *)
(*   - slippage is in basis points, as in the source.                      *)
(* Quantities are whole lots of 100 shares, so every amount is a whole     *)
(* number of yuan and every fee is exact in these units.  round(x, 2) is   *)
(* modelled as rounding to the nearest cent (ties to the even cent); the   *)
(* prices and slippages used never produce a tie.                          *)
(*                                                                         *)
(* Dates.  A datetime is [day, tod]: a day number and a time of day.  Day  *)
(* 1 is a Thursday; the calendar is the weekday calendar the source falls  *)
(* back to when the exchange calendar cannot be loaded.                    *)
(***************************************************************************)
EXTENDS Integers, Sequences, FiniteSets, TLC

VARIABLES
    environment,      \* TradingEngine.environment
    initial_capital,  \* TradingEngine.initial_capital
    slippage_bps,     \* MatchingEngine.slippage_bps
    risk_config,      \* BacktestOrchestrator.risk_config (None or a RiskConfig)
    cash,             \* TradingEngine.portfolio.cash
    positions,        \* TradingEngine.portfolio.positions: symbol -> Position
    orders,           \* TradingEngine.orders
    trades,           \* TradingEngine.trades
    equity_history,   \* TradingEngine.equity_history: current_date -> equity
    last_call,        \* the last process_signal call: arguments, return reached
    last_result,      \* what that call returned (a Trade or None)
    risk_verdicts,    \* what check_order_risk answers for each recorded order
    equity_records,   \* BacktestOrchestrator.run: equity_records
    df_rows,          \* BacktestOrchestrator.run: rows of df iterated so far
    run_state,        \* BacktestOrchestrator.run: position in the method
    probe,            \* one direct call: its arguments and result
    peak_equity,      \* RiskManager.peak_equity
    param_grid,       \* GridSearchOptimizer.param_grid: parameter names and values
    constraints,      \* optimize: the constraints argument (None or a dict)
    combo_index,      \* optimize: combinations the loop has gone through
    all_results,      \* optimize: all_results
    best_score,       \* optimize: best_score
    best_params,      \* optimize: best_params
    best_result,      \* optimize: best_result (None or a BacktestResult)
    search_state,     \* optimize: position in the method
    search_result,    \* optimize: the GridSearchResult returned
    train_period_months, \* WalkForwardValidator.train_period_months
    test_period_months,  \* WalkForwardValidator.test_period_months
    step_months,      \* WalkForwardValidator.step_months
    data_dates,       \* validate: the values of market_data['date']
    current_start,    \* _generate_periods: current_start
    periods_config,   \* _generate_periods: periods, then validate: periods_config
    period_index,     \* validate: windows the loop has gone through
    periods,          \* validate: periods
    walk_log,         \* what the evaluation of each window did
    walk_state,       \* validate: position in the method
    walk_result,      \* validate: the WalkForwardResult returned
    metadata,         \* BacktestOrchestrator.metadata
    run_results       \* the BacktestResults run has returned, oldest first

vars == <<environment, initial_capital, slippage_bps, risk_config, cash,
          positions, orders, trades, equity_history, last_call, last_result,
          risk_verdicts, equity_records, df_rows, run_state, probe, peak_equity,
          param_grid, constraints, combo_index, all_results, best_score,
          best_params, best_result, search_state, search_result,
          train_period_months, test_period_months, step_months, data_dates,
          current_start, periods_config, period_index, periods, walk_log,
          walk_state, walk_result, metadata, run_results>>

result_vars == <<metadata, run_results>>

walk_vars == <<train_period_months, test_period_months, step_months, data_dates,
               current_start, periods_config, period_index, periods, walk_log,
               walk_state, walk_result>>

search_vars == <<param_grid, constraints, combo_index, all_results, best_score,
                 best_params, best_result, search_state, search_result>>

engine_config == <<environment, initial_capital, slippage_bps, risk_config>>
engine_state == <<cash, positions, orders, trades, equity_history, last_call,
                  last_result, risk_verdicts>>
run_vars == <<equity_records, df_rows, run_state>>

----------------------------------------------------------------------------
(* Bounds of the model *)

\* process_signal is called while fewer than MaxOrders orders are recorded
MaxOrders == 2
\* the simulated dates are the days 1..MaxDay
MaxDay == 3

----------------------------------------------------------------------------
(* Program constants *)

\* TradingEngine.__init__ default commission_rate = 0.0003
commission_rate == 30
\* TradingEngine.__init__ default min_commission = 5.0 yuan
min_commission == 500000
\* TradingEngine.__init__ default stamp_tax_rate = 0.001
stamp_tax_rate == 100
\* MatchingEngine._calculate_commission: transfer fee 0.00002
transfer_fee_rate == 2
\* MatchingEngine._calculate_commission: currency fee 0.0001
currency_fee_rate == 10
\* MatchingEngine._calculate_commission: settlement fee 0.00002
settlement_fee_rate == 2
\* TradingEngine._process_buy_signal: quantity rounded down to 100 shares
LOT == 100

----------------------------------------------------------------------------
(* Values *)

\* Python None
None == [none |-> TRUE]
\* "no percentage" in the price-limit table (None in the source)
NoPct == 0 - 1
NoDate == [day |-> 0, tod |-> 0]

Yuan(n) == n * 100000
PriceUnits(cents) == cents * 1000

\* a symbol is the sequence of its characters
Symbols == {<<"6", "0", "0", "0", "0", "0">>}
Prices == {490, 986}
TimesOfDay == {0, 15}
Capitals == {Yuan(1000)}
SlippageChoices == {5, 100}
Environments == {[market |-> "CN", board |-> "MAIN", channel |-> "DIRECT"]}
RiskConfigs == {None, [max_position_pct |-> 30, max_total_exposure |-> 100]}

Dates == [day : 1..MaxDay, tod : TimesOfDay]
DateLE(a, b) == a.day < b.day \/ (a.day = b.day /\ a.tod <= b.tod)

Max(a, b) == IF a >= b THEN a ELSE b
Min(a, b) == IF a <= b THEN a ELSE b
Abs(a) == IF a >= 0 THEN a ELSE -a

EmptyDict == [k \in {} |-> None]
DictSet(d, k, v) == [x \in (DOMAIN d) \cup {k} |-> IF x = k THEN v ELSE d[x]]
DictDel(d, k) == [x \in (DOMAIN d) \ {k} |-> d[x]]

RECURSIVE SumOver(_, _)
SumOver(f, S) ==
    IF S = {} THEN 0
    ELSE LET x == CHOOSE y \in S : TRUE IN f[x] + SumOver(f, S \ {x})

\* round(n / d) for n >= 0, d > 0: nearest, ties to even
RoundDiv(n, d) ==
    LET q == n \div d
        r == n % d
    IN  IF 2 * r > d THEN q + 1
        ELSE IF 2 * r < d THEN q
        ELSE IF q % 2 = 0 THEN q ELSE q + 1

\* amount * rate, amount in money units, rate in 1/100000 (exact for whole yuan)
RateOf(amount, rate) ==
    (amount \div 100000) * rate + ((amount % 100000) * rate) \div 100000

\* the least whole number of units >= amount * rate
RateOfCeil(amount, rate) ==
    (amount \div 100000) * rate + ((amount % 100000) * rate + 99999) \div 100000

----------------------------------------------------------------------------
(* models.py *)

\* Position.market_value
PositionMarketValue(pos) == pos.quantity * PriceUnits(pos.current_price)

\* Portfolio.market_value
PortfolioMarketValue(ps) ==
    SumOver([s \in DOMAIN ps |-> PositionMarketValue(ps[s])], DOMAIN ps)

\* Portfolio.total_equity
TotalEquity(c, ps) == c + PortfolioMarketValue(ps)

\* Portfolio.get_position
GetPosition(ps, symbol) == IF symbol \in DOMAIN ps THEN ps[symbol] ELSE None

\* Portfolio.has_position
HasPosition(ps, symbol) == symbol \in DOMAIN ps /\ ps[symbol].quantity > 0

\* Trade.total_cost
TradeTotalCost(trade) == trade.amount + trade.commission + trade.stamp_tax

\* Commission.total
CommissionTotal(c) ==
    c.broker_fee + c.stamp_tax + c.transfer_fee + c.settlement_fee + c.currency_fee

----------------------------------------------------------------------------
(* rules/trading_calendar.py *)

\* datetime(date.year, date.month, date.day)
Normalize(date) == date.day

\* datetime.weekday() of a day number: day 1 is a Thursday (3)
Weekday(day) == (day + 2) % 7

\* TradingCalendar._use_weekday_fallback: the set trading_days
TradingDays == {d \in 0..(MaxDay + 7) : Weekday(d) < 5}

\* TradingCalendar.is_trading_day
IsTradingDay(date) == Normalize(date) \in TradingDays

\* TradingCalendar.get_trading_days_between (inclusive)
TradingDaysBetween(start_date, end_date) ==
    {d \in TradingDays : Normalize(start_date) <= d /\ d <= Normalize(end_date)}

\* the days the loops of next_trading_day and prev_trading_day go through
\* before they give up
SearchLimitDays == 365

\* _use_weekday_fallback: datetime(2000, 1, 1), a Saturday, and
\* datetime(2030, 12, 31), 11322 days later
FallbackFirstDay == 0 - 4
FallbackLastDay == FallbackFirstDay + 11322

\* a calendar with holidays and a pause of more than a year
SparseTradingDays == {1, 2, 5, 6, 400, 401}

\* date in self.trading_days, for the calendars "weekday" and "sparse"
InTradingDays(calendar, day) ==
    IF calendar = "weekday"
        THEN /\ FallbackFirstDay <= day
             /\ day <= FallbackLastDay
             /\ Weekday(day) < 5
    ELSE day \in SparseTradingDays

\* next_trading_day giving up a day early
NextTradingDayPassEarly(f) ==
    LET found == InTradingDays(f.calendar, f.next_date)
        count == IF found THEN f.count + 1 ELSE f.count
    IN  IF found /\ count = f.skip
            THEN [f EXCEPT !.count = count, !.state = "returned"]
        ELSE IF (f.next_date + 1) - f.date_normalized >= SearchLimitDays
            THEN [f EXCEPT !.count = count, !.next_date = @ + 1,
                           !.state = "raised"]
        ELSE [f EXCEPT !.count = count, !.next_date = @ + 1]

\* one pass of the loop of next_trading_day on its frame: the return of
\* next_date, the ValueError, or the next day
NextTradingDayPass(f) ==
    LET found == InTradingDays(f.calendar, f.next_date)
        count == IF found THEN f.count + 1 ELSE f.count
    IN  IF found /\ count = f.skip
            THEN [f EXCEPT !.count = count, !.state = "returned"]
        ELSE IF (f.next_date + 1) - f.date_normalized > SearchLimitDays
            THEN [f EXCEPT !.count = count, !.next_date = @ + 1,
                           !.state = "raised"]
        ELSE [f EXCEPT !.count = count, !.next_date = @ + 1]

\* one pass of the loop of prev_trading_day; next_date is its prev_date
PrevTradingDayPass(f) ==
    LET found == InTradingDays(f.calendar, f.next_date)
        count == IF found THEN f.count + 1 ELSE f.count
    IN  IF found /\ count = f.skip
            THEN [f EXCEPT !.count = count, !.state = "returned"]
        ELSE IF f.date_normalized - (f.next_date - 1) > SearchLimitDays
            THEN [f EXCEPT !.count = count, !.next_date = @ - 1,
                           !.state = "raised"]
        ELSE [f EXCEPT !.count = count, !.next_date = @ - 1]

----------------------------------------------------------------------------
(* rules/validator.py *)

\* TradingRulesValidator._load_price_limit_rules: board -> <<up %, down %>>
PriceLimitRules(env) ==
    IF env.market = "CN" THEN
        [b \in {"MAIN", "GEM", "STAR", "BSE", "ST"} |->
            CASE b = "MAIN" -> <<10, 10>>
              [] b = "GEM"  -> <<20, 20>>
              [] b = "STAR" -> <<20, 20>>
              [] b = "BSE"  -> <<30, 30>>
              [] b = "ST"   -> <<5, 5>>]
    ELSE IF env.market = "HK" THEN
        [b \in {"MAIN", "HK_MAIN"} |-> <<NoPct, NoPct>>]
    ELSE IF env.market = "US" THEN
        [b \in {"NYSE", "NASDAQ"} |-> <<NoPct, NoPct>>]
    ELSE EmptyDict

\* TradingRulesValidator._is_ipo_exception
IsIpoException(stock_info, current_date, board) ==
    IF stock_info = None \/ current_date = None THEN FALSE
    ELSE IF stock_info.ipo_date = None THEN FALSE
    ELSE IF board \in {"GEM", "STAR"}
        THEN Cardinality(TradingDaysBetween(stock_info.ipo_date, current_date)) <= 5
    ELSE IF board = "MAIN"
        THEN Cardinality(TradingDaysBetween(stock_info.ipo_date, current_date)) <= 1
    ELSE FALSE

NoLimit == [upper_limit |-> None, lower_limit |-> None, has_limit |-> FALSE]

\* TradingRulesValidator.get_price_limits; [raised |-> "KeyError"] when the
\* lookup self.price_limit_rules[board] raises
GetPriceLimits(env, prev_close, board, stock_info, current_date) ==
    LET rules == PriceLimitRules(env)
        b == IF board \notin DOMAIN rules THEN "MAIN" ELSE board
    IN  IF b \notin DOMAIN rules THEN [raised |-> "KeyError"]
        ELSE IF rules[b][1] = NoPct \/ rules[b][2] = NoPct THEN NoLimit
        ELSE IF IsIpoException(stock_info, current_date, b) THEN NoLimit
        ELSE [upper_limit |-> RoundDiv(prev_close * (100 + rules[b][1]), 100),
              lower_limit |-> RoundDiv(prev_close * (100 - rules[b][2]), 100),
              has_limit |-> TRUE]

\* TradingRulesValidator._validate_not_suspended
ValidateNotSuspended(order, market_data) == ~market_data.is_suspended

\* TradingRulesValidator._validate_trading_day
ValidateTradingDay(date) == IsTradingDay(date)

\* _validate_t_plus_1 comparing the timestamps as they are instead of their
\* calendar days: C2 does not hold of it
ValidateTPlus1Raw(order, ps, current_date) ==
    IF order.side # "SELL" THEN {}
    ELSE IF GetPosition(ps, order.symbol) = None THEN {"no_position"}
    ELSE IF DateLE(current_date, GetPosition(ps, order.symbol).buy_date)
        THEN {"t_plus_1"}
    ELSE {}

\* TradingRulesValidator._validate_t_plus_1: the errors it reports
ValidateTPlus1(order, ps, current_date) ==
    IF order.side # "SELL" THEN {}
    ELSE IF GetPosition(ps, order.symbol) = None THEN {"no_position"}
    ELSE IF Normalize(GetPosition(ps, order.symbol).buy_date) >= Normalize(current_date)
        THEN {"t_plus_1"}
    ELSE {}

\* _validate_price_limit checking buys only: C11 does not hold of it
ValidatePriceLimitBuysOnly(env, order, market_data, stock_info) ==
    LET price_limits == GetPriceLimits(env, market_data.prev_close,
                            market_data.board_type, stock_info, market_data.date)
    IN  IF ~price_limits.has_limit THEN {}
        ELSE IF order.side = "BUY" /\ market_data.is_limit_up THEN {"limit_up"}
        ELSE {}

\* TradingRulesValidator._validate_price_limit: the errors it reports
ValidatePriceLimit(env, order, market_data, stock_info) ==
    LET price_limits == GetPriceLimits(env, market_data.prev_close,
                            market_data.board_type, stock_info, market_data.date)
    IN  IF ~price_limits.has_limit THEN {}
        ELSE IF order.side = "BUY" /\ market_data.is_limit_up THEN {"limit_up"}
        ELSE IF order.side = "SELL" /\ market_data.is_limit_down THEN {"limit_down"}
        ELSE {}

\* TradingRulesValidator._validate_balance: the errors it reports
ValidateBalance(order, c, ps) ==
    IF order.side = "BUY" THEN
        IF c < order.quantity * PriceUnits(order.limit_price)
            THEN {"insufficient_cash"} ELSE {}
    ELSE IF order.side = "SELL" THEN
        IF GetPosition(ps, order.symbol) = None THEN {"insufficient_position"}
        ELSE IF GetPosition(ps, order.symbol).quantity < order.quantity
            THEN {"insufficient_position"}
        ELSE {}
    ELSE {}

\* TradingRulesValidator.validate_order: ValidationResult(is_valid, errors)
ValidateOrder(env, order, market_data, c, ps, current_date, stock_info) ==
    LET errors ==
            (IF ValidateNotSuspended(order, market_data) THEN {} ELSE {"suspended"})
            \cup (IF ValidateTradingDay(current_date) THEN {} ELSE {"not_trading_day"})
            \cup (IF order.side = "SELL"
                    THEN ValidateTPlus1(order, ps, current_date) ELSE {})
            \cup ValidatePriceLimit(env, order, market_data, stock_info)
            \cup ValidateBalance(order, c, ps)
    IN  [is_valid |-> errors = {}, errors |-> errors]

----------------------------------------------------------------------------
(* matching_engine.py *)

\* MatchingEngine._can_execute_at_price_limit
CanExecuteAtPriceLimit(env, order, market_data, stock_info) ==
    LET price_limits == GetPriceLimits(env, market_data.prev_close,
                            market_data.board_type, stock_info, market_data.date)
    IN  IF ~price_limits.has_limit THEN TRUE
        ELSE IF order.side = "BUY" /\ market_data.is_limit_up THEN FALSE
        ELSE IF order.side = "SELL" /\ market_data.is_limit_down THEN FALSE
        ELSE TRUE

\* MatchingEngine._calculate_execution_price, in cents
CalculateExecutionPrice(env, bps, order, market_data, stock_info) ==
    LET base_price == market_data.close
        \* in 1/10000 of a cent
        slipped == IF order.side = "BUY" THEN base_price * (10000 + bps)
                   ELSE base_price * (10000 - bps)
        price_limits == GetPriceLimits(env, market_data.prev_close,
                            market_data.board_type, stock_info, market_data.date)
        clipped ==
            IF price_limits.has_limit THEN
                IF order.side = "BUY" /\ price_limits.upper_limit # 0
                    THEN Min(slipped, price_limits.upper_limit * 10000)
                ELSE IF order.side = "SELL" /\ price_limits.lower_limit # 0
                    THEN Max(slipped, price_limits.lower_limit * 10000)
                ELSE slipped
            ELSE slipped
    IN  RoundDiv(clipped, 10000)

\* _calculate_commission without the minimum broker fee: C14 does not hold of it
CalculateCommissionNoFloor(env, order, amount) ==
    [broker_fee |-> RateOf(amount, commission_rate),
     stamp_tax |-> IF order.side = "SELL" THEN RateOf(amount, stamp_tax_rate) ELSE 0,
     transfer_fee |-> IF env.market = "CN" /\ Head(order.symbol) = "6"
                          THEN RateOf(amount, transfer_fee_rate) ELSE 0,
     currency_fee |-> IF env.channel = "CONNECT" /\ env.market = "HK"
                          THEN RateOf(amount, currency_fee_rate) ELSE 0,
     settlement_fee |-> IF env.channel = "CONNECT" /\ env.market = "HK"
                          THEN RateOf(amount, settlement_fee_rate) ELSE 0]

\* MatchingEngine._calculate_commission
CalculateCommission(env, order, amount) ==
    LET fee == RateOf(amount, commission_rate)
    IN  [broker_fee |-> IF fee < min_commission THEN min_commission ELSE fee,
         stamp_tax |-> IF order.side = "SELL" THEN RateOf(amount, stamp_tax_rate) ELSE 0,
         transfer_fee |-> IF env.market = "CN" /\ Head(order.symbol) = "6"
                              THEN RateOf(amount, transfer_fee_rate) ELSE 0,
         currency_fee |-> IF env.channel = "CONNECT" /\ env.market = "HK"
                              THEN RateOf(amount, currency_fee_rate) ELSE 0,
         settlement_fee |-> IF env.channel = "CONNECT" /\ env.market = "HK"
                              THEN RateOf(amount, settlement_fee_rate) ELSE 0]

\* match_order without the suspension check: C10 does not hold of it
MatchOrderNoSuspend(env, bps, order, market_data, stock_info, trade_id) ==
    IF ~CanExecuteAtPriceLimit(env, order, market_data, stock_info) THEN None
    ELSE LET execution_price ==
                 CalculateExecutionPrice(env, bps, order, market_data, stock_info)
             amount == order.quantity * PriceUnits(execution_price)
             commission_detail == CalculateCommission(env, order, amount)
         IN  [trade_id |-> trade_id,
              order_id |-> order.order_id,
              symbol |-> order.symbol,
              side |-> order.side,
              quantity |-> order.quantity,
              price |-> execution_price,
              amount |-> amount,
              commission |-> CommissionTotal(commission_detail),
              stamp_tax |-> commission_detail.stamp_tax,
              slippage |-> PriceUnits(Abs(execution_price - market_data.close))
                              * order.quantity,
              executed_at |-> market_data.date]

\* MatchingEngine.match_order: a Trade, or None
MatchOrder(env, bps, order, market_data, stock_info, trade_id) ==
    IF market_data.is_suspended THEN None
    ELSE IF ~CanExecuteAtPriceLimit(env, order, market_data, stock_info) THEN None
    ELSE LET execution_price ==
                 CalculateExecutionPrice(env, bps, order, market_data, stock_info)
             amount == order.quantity * PriceUnits(execution_price)
             commission_detail == CalculateCommission(env, order, amount)
         IN  [trade_id |-> trade_id,
              order_id |-> order.order_id,
              symbol |-> order.symbol,
              side |-> order.side,
              quantity |-> order.quantity,
              price |-> execution_price,
              amount |-> amount,
              commission |-> CommissionTotal(commission_detail),
              stamp_tax |-> commission_detail.stamp_tax,
              slippage |-> PriceUnits(Abs(execution_price - market_data.close))
                              * order.quantity,
              executed_at |-> market_data.date]

----------------------------------------------------------------------------
(* risk_manager.py *)

\* value / total > pct / 100, for value a whole number of yuan
ExceedsPct(value, total, pct) ==
    LET d == (value \div 100000) * 100 - pct * (total \div 100000)
    IN  IF d > 100 THEN TRUE
        ELSE IF d <= 0 THEN FALSE
        ELSE d * 100000 > pct * (total % 100000)

\* RiskManager._check_position_limit: TRUE when passed; order and portfolio
\* are the dicts of check_order_risk's docstring
CheckPositionLimit(config, order, portfolio) ==
    LET current_position_value ==
            IF order.symbol \in DOMAIN portfolio.positions
                THEN portfolio.positions[order.symbol].shares * PriceUnits(order.price)
                ELSE 0
        order_value == order.shares * PriceUnits(order.price)
    IN  ~ExceedsPct(current_position_value + order_value, portfolio.total_equity,
                    config.max_position_pct)

\* current_prices.get(symbol, position.get("cost_price", 0))
CurrentPriceOr(portfolio, symbol) ==
    IF symbol \in DOMAIN portfolio.current_prices
        THEN portfolio.current_prices[symbol]
        ELSE portfolio.positions[symbol].cost_price

\* RiskManager._check_exposure_limit: TRUE when passed
CheckExposureLimit(config, order, portfolio) ==
    LET order_value == order.shares * PriceUnits(order.price)
        current_total_value ==
            SumOver([s \in DOMAIN portfolio.positions |->
                        portfolio.positions[s].shares
                            * PriceUnits(CurrentPriceOr(portfolio, s))],
                    DOMAIN portfolio.positions)
    IN  ~ExceedsPct(current_total_value + order_value, portfolio.total_equity,
                    config.max_total_exposure)

\* check_order_risk checking the total exposure first: C17 does not hold of it
CheckOrderRiskExposureFirst(config, order, portfolio) ==
    IF ~CheckExposureLimit(config, order, portfolio)
        THEN [status |-> "rejected", reason |-> "exposure_limit"]
    ELSE IF ~CheckPositionLimit(config, order, portfolio)
        THEN [status |-> "rejected", reason |-> "position_limit"]
    ELSE [status |-> "passed", reason |-> "none"]

\* RiskManager.check_order_risk: the status and the limit that rejected
CheckOrderRisk(config, order, portfolio) ==
    IF ~CheckPositionLimit(config, order, portfolio)
        THEN [status |-> "rejected", reason |-> "position_limit"]
    ELSE IF ~CheckExposureLimit(config, order, portfolio)
        THEN [status |-> "rejected", reason |-> "exposure_limit"]
    ELSE [status |-> "passed", reason |-> "none"]

\* the keys of a dict in the order its items are visited
RECURSIVE Keys(_)
Keys(d) ==
    IF DOMAIN d = {} THEN <<>>
    ELSE LET k == CHOOSE x \in DOMAIN d : TRUE
         IN  <<k>> \o Keys([x \in DOMAIN d \ {k} |-> d[x]])

\* (peak - current) / peak >= pct / 100, peak > 0, without overflow
DrawdownReached(peak, current, pct) ==
    LET drop == peak - current
        d == (drop \div 100000) * 100 - pct * (peak \div 100000)
    IN  IF d > 100 THEN TRUE
        ELSE IF d < 0 - 100 THEN FALSE
        ELSE d * 100000 + (drop % 100000) * 100 - pct * (peak % 100000) >= 0

\* RiskManager._check_stop_loss: a ForcedOrder, or None
CheckStopLoss(config, symbol, position, current_price) ==
    IF config.stop_loss_pct = NoPct THEN None
    ELSE IF current_price * 100 <= position.cost_price * (100 - config.stop_loss_pct)
        THEN [symbol |-> symbol, shares |-> position.shares,
              reason |-> "stop_loss", trigger_price |-> current_price]
    ELSE None

\* _check_stop_profit triggering above the line only: C16 does not hold of it
CheckStopProfitAbove(config, symbol, position, current_price) ==
    IF config.stop_profit_pct = NoPct THEN None
    ELSE IF current_price * 100 > position.cost_price * (100 + config.stop_profit_pct)
        THEN [symbol |-> symbol, shares |-> position.shares,
              reason |-> "stop_profit", trigger_price |-> current_price]
    ELSE None

\* RiskManager._check_stop_profit: a ForcedOrder, or None
CheckStopProfit(config, symbol, position, current_price) ==
    IF config.stop_profit_pct = NoPct THEN None
    ELSE IF current_price * 100 >= position.cost_price * (100 + config.stop_profit_pct)
        THEN [symbol |-> symbol, shares |-> position.shares,
              reason |-> "stop_profit", trigger_price |-> current_price]
    ELSE None

\* the loop of _check_drawdown_protection over the positions
RECURSIVE LiquidateAll(_, _)
LiquidateAll(portfolio, keys) ==
    IF keys = <<>> THEN <<>>
    ELSE <<[symbol |-> Head(keys),
            shares |-> portfolio.positions[Head(keys)].shares,
            reason |-> "drawdown_protection",
            trigger_price |-> CurrentPriceOr(portfolio, Head(keys))]>>
         \o LiquidateAll(portfolio, Tail(keys))

\* RiskManager._check_drawdown_protection: the peak it leaves and its orders
CheckDrawdownProtection(config, peak, portfolio) ==
    IF config.max_drawdown_pct = NoPct
        THEN [peak_equity |-> peak, orders |-> <<>>]
    ELSE LET current_equity == portfolio.total_equity
             new_peak == Max(peak, current_equity)
         IN  [peak_equity |-> new_peak,
              orders |-> IF DrawdownReached(new_peak, current_equity,
                                            config.max_drawdown_pct)
                             THEN LiquidateAll(portfolio, Keys(portfolio.positions))
                             ELSE <<>>]

\* the loop of check_exit_signals over the positions
RECURSIVE ExitLoop(_, _, _, _)
ExitLoop(config, portfolio, current_data, keys) ==
    IF keys = <<>> THEN <<>>
    ELSE LET symbol == Head(keys)
             position == portfolio.positions[symbol]
             rest == ExitLoop(config, portfolio, current_data, Tail(keys))
         IN  IF symbol \notin DOMAIN current_data THEN rest
             ELSE IF CheckStopLoss(config, symbol, position,
                                   current_data[symbol]) # None
                 THEN <<CheckStopLoss(config, symbol, position,
                                      current_data[symbol])>> \o rest
             ELSE IF CheckStopProfit(config, symbol, position,
                                     current_data[symbol]) # None
                 THEN <<CheckStopProfit(config, symbol, position,
                                        current_data[symbol])>> \o rest
             ELSE rest

\* check_exit_signals going on to the stop lines after a liquidation: C15
\* does not hold of it
CheckExitSignalsNoReturn(config, peak, portfolio, current_data) ==
    LET drawdown == CheckDrawdownProtection(config, peak, portfolio)
    IN  [peak_equity |-> drawdown.peak_equity,
         orders |-> drawdown.orders
                      \o ExitLoop(config, portfolio, current_data,
                                  Keys(portfolio.positions))]

\* RiskManager.check_exit_signals: the peak it leaves and the forced orders
CheckExitSignals(config, peak, portfolio, current_data) ==
    LET drawdown == CheckDrawdownProtection(config, peak, portfolio)
    IN  [peak_equity |-> drawdown.peak_equity,
         orders |-> IF drawdown.orders # <<>> THEN drawdown.orders
                    ELSE ExitLoop(config, portfolio, current_data,
                                  Keys(portfolio.positions))]

\* RiskManager.update_peak_equity
UpdatePeakEquity(peak, current_equity) == Max(peak, current_equity)

----------------------------------------------------------------------------
(* trading_engine.py *)

\* TradingEngine._update_position_prices
UpdatePositionPrices(ps, market_data) ==
    IF market_data.symbol \in DOMAIN ps
        THEN [ps EXCEPT ![market_data.symbol].current_price = market_data.close]
        ELSE ps

\* _update_portfolio leaving the position in place on a sell: C27 does not
\* hold of it
UpdatePortfolioKeepPosition(c, ps, trade, market_data, current_date) ==
    IF trade.side = "BUY" THEN
        [cash |-> c - TradeTotalCost(trade),
         positions |-> DictSet(ps, trade.symbol,
                          [symbol |-> trade.symbol,
                           quantity |-> trade.quantity,
                           avg_cost |-> trade.price,
                           current_price |-> market_data.close,
                           buy_date |-> current_date])]
    ELSE IF trade.side = "SELL" THEN
        [cash |-> c + (trade.amount - trade.commission - trade.stamp_tax),
         positions |-> ps]
    ELSE [cash |-> c, positions |-> ps]

\* TradingEngine._update_portfolio: the new cash and positions
UpdatePortfolio(c, ps, trade, market_data, current_date) ==
    IF trade.side = "BUY" THEN
        [cash |-> c - TradeTotalCost(trade),
         positions |-> DictSet(ps, trade.symbol,
                          [symbol |-> trade.symbol,
                           quantity |-> trade.quantity,
                           avg_cost |-> trade.price,
                           current_price |-> market_data.close,
                           buy_date |-> current_date])]
    ELSE IF trade.side = "SELL" THEN
        [cash |-> c + (trade.amount - trade.commission - trade.stamp_tax),
         positions |-> DictDel(ps, trade.symbol)]
    ELSE [cash |-> c, positions |-> ps]

\* what one process_signal call leaves: the engine's state, the return value
\* and the return statement reached ("no_order", "invalid", "unmatched", "filled")
Outcome(c, ps, os, ts, result, path) ==
    [cash |-> c, positions |-> ps, orders |-> os, trades |-> ts, result |-> result,
     path |-> path]

\* an order recorded without its status being set: C5 does not hold of it
WithStatusKeep(order, status) == order

\* the order as recorded with its final status
WithStatus(order, status) == [order EXCEPT !.status = status]

\* _execute_order that does not record an order the validator rejects: C4
\* does not hold of it
ExecuteOrderDropRejected(env, bps, c, ps, os, ts, order, market_data, current_date) ==
    LET validation_result ==
            ValidateOrder(env, order, market_data, c, ps, current_date, None)
        trade == MatchOrder(env, bps, order, market_data, None, Len(ts) + 1)
    IN  IF ~validation_result.is_valid
            THEN Outcome(c, ps, os, ts, None, "invalid")
        ELSE IF trade = None
            THEN Outcome(c, ps, Append(os, WithStatus(order, "REJECTED")), ts, None,
                         "unmatched")
        ELSE LET p == UpdatePortfolio(c, ps, trade, market_data, current_date)
             IN  Outcome(p.cash, p.positions,
                         Append(os, WithStatus(order, "FILLED")),
                         Append(ts, trade), trade, "filled")

\* TradingEngine._execute_order
ExecuteOrder(env, bps, c, ps, os, ts, order, market_data, current_date) ==
    LET validation_result ==
            ValidateOrder(env, order, market_data, c, ps, current_date, None)
        trade == MatchOrder(env, bps, order, market_data, None, Len(ts) + 1)
    IN  IF ~validation_result.is_valid
            THEN Outcome(c, ps, Append(os, WithStatus(order, "REJECTED")), ts, None,
                         "invalid")
        ELSE IF trade = None
            THEN Outcome(c, ps, Append(os, WithStatus(order, "REJECTED")), ts, None,
                         "unmatched")
        ELSE LET p == UpdatePortfolio(c, ps, trade, market_data, current_date)
             IN  Outcome(p.cash, p.positions,
                         Append(os, WithStatus(order, "FILLED")),
                         Append(ts, trade), trade, "filled")

\* TradingEngine._process_buy_signal: the quantity it orders
BuyQuantity(c, price) ==
    LET \* 2 * max(available_cash * commission_rate, min_commission), rounded up
        reserve == Max(RateOfCeil(c, 2 * commission_rate), 2 * min_commission)
        usable_cash == c - reserve
    IN  IF usable_cash <= 0 THEN 0
        ELSE (usable_cash \div (PriceUnits(price) * LOT)) * LOT

\* TradingEngine._process_buy_signal
ProcessBuySignal(env, bps, c, ps, os, ts, signal, market_data, current_date) ==
    IF HasPosition(ps, signal.symbol) THEN Outcome(c, ps, os, ts, None, "no_order")
    ELSE IF BuyQuantity(c, signal.price) <= 0 THEN Outcome(c, ps, os, ts, None, "no_order")
    ELSE ExecuteOrder(env, bps, c, ps, os, ts,
            [order_id |-> Len(os) + 1,
             symbol |-> signal.symbol,
             side |-> "BUY",
             quantity |-> BuyQuantity(c, signal.price),
             limit_price |-> signal.price,
             created_at |-> current_date,
             status |-> "PENDING"],
            market_data, current_date)

\* _process_sell_signal that sends an order for a symbol not held to the
\* validator instead of returning: C6 does not hold of it
ProcessSellSignalFlat(env, bps, c, ps, os, ts, signal, market_data, current_date) ==
    ExecuteOrder(env, bps, c, ps, os, ts,
        [order_id |-> Len(os) + 1,
         symbol |-> signal.symbol,
         side |-> "SELL",
         quantity |-> IF GetPosition(ps, signal.symbol) = None THEN 0
                      ELSE GetPosition(ps, signal.symbol).quantity,
         limit_price |-> signal.price,
         created_at |-> current_date,
         status |-> "PENDING"],
        market_data, current_date)

\* TradingEngine._process_sell_signal
ProcessSellSignal(env, bps, c, ps, os, ts, signal, market_data, current_date) ==
    IF GetPosition(ps, signal.symbol) = None THEN Outcome(c, ps, os, ts, None, "no_order")
    ELSE ExecuteOrder(env, bps, c, ps, os, ts,
            [order_id |-> Len(os) + 1,
             symbol |-> signal.symbol,
             side |-> "SELL",
             quantity |-> GetPosition(ps, signal.symbol).quantity,
             limit_price |-> signal.price,
             created_at |-> current_date,
             status |-> "PENDING"],
            market_data, current_date)

\* process_signal treating every signal that is not a sell as a buy: C9 does
\* not hold of it
DispatchSignalHoldBuys(env, bps, c, ps, os, ts, signal, market_data, current_date) ==
    IF signal.action = -1
        THEN ProcessSellSignal(env, bps, c, ps, os, ts, signal, market_data, current_date)
    ELSE ProcessBuySignal(env, bps, c, ps, os, ts, signal, market_data, current_date)

\* TradingEngine.process_signal, after the price refresh and the equity record
DispatchSignal(env, bps, c, ps, os, ts, signal, market_data, current_date) ==
    IF signal.action = 0 THEN Outcome(c, ps, os, ts, None, "no_order")
    ELSE IF signal.action = 1
        THEN ProcessBuySignal(env, bps, c, ps, os, ts, signal, market_data, current_date)
    ELSE IF signal.action = -1
        THEN ProcessSellSignal(env, bps, c, ps, os, ts, signal, market_data, current_date)
    ELSE Outcome(c, ps, os, ts, None, "no_order")

\* the portfolio snapshot RiskManager.check_order_risk is given
PortfolioSnapshot(c, ps) ==
    [total_equity |-> TotalEquity(c, ps),
     cash |-> c,
     positions |-> [s \in DOMAIN ps |->
                       [shares |-> ps[s].quantity, cost_price |-> ps[s].avg_cost]],
     current_prices |-> [s \in DOMAIN ps |-> ps[s].current_price]]

\* the order dict RiskManager.check_order_risk is given
OrderDict(order) ==
    [symbol |-> order.symbol, shares |-> order.quantity, price |-> order.limit_price]

\* TradingEngine.process_signal on this engine
ProcessSignalOn(signal, market_data, current_date) ==
    \E refreshed \in {UpdatePositionPrices(positions, market_data)} :
    \E out \in {DispatchSignal(environment, slippage_bps, cash, refreshed, orders,
                               trades, signal, market_data, current_date)} :
        /\ equity_history' = DictSet(equity_history, current_date,
                                     TotalEquity(cash, refreshed))
        /\ cash' = out.cash
        /\ positions' = out.positions
        /\ orders' = out.orders
        /\ trades' = out.trades
        /\ last_call' = [symbol |-> signal.symbol,
                         action |-> signal.action,
                         close |-> market_data.close,
                         current_date |-> current_date,
                         path |-> out.path]
        /\ last_result' = out.result
        /\ risk_verdicts' =
             IF Len(out.orders) = Len(orders) THEN risk_verdicts
             ELSE Append(risk_verdicts,
                    IF risk_config = None THEN [status |-> "passed", reason |-> "none"]
                    ELSE CheckOrderRisk(risk_config,
                                        OrderDict(out.orders[Len(out.orders)]),
                                        PortfolioSnapshot(cash, refreshed)))

----------------------------------------------------------------------------
(* rules/lot_size_rules.py *)

\* LotSizeRules.HK_STOCK_LOT_SIZES
HK_STOCK_LOT_SIZES ==
    <<"0", "0", "7", "0", "0">> :> 100 @@
    <<"0", "9", "9", "8", "8">> :> 100 @@
    <<"0", "3", "6", "9", "0">> :> 100 @@
    <<"0", "1", "8", "1", "0">> :> 200 @@
    <<"0", "9", "6", "1", "8">> :> 100 @@
    <<"0", "1", "0", "2", "4">> :> 100 @@
    <<"0", "9", "9", "9", "9">> :> 100 @@
    <<"0", "9", "8", "8", "8">> :> 100 @@
    <<"0", "9", "6", "2", "6">> :> 100 @@
    <<"0", "9", "9", "6", "1">> :> 100 @@
    <<"0", "0", "0", "0", "5">> :> 400 @@
    <<"0", "0", "9", "4", "1">> :> 500 @@
    <<"0", "1", "3", "9", "8">> :> 1000 @@
    <<"0", "3", "9", "8", "8">> :> 500 @@
    <<"0", "1", "2", "8", "8">> :> 500 @@
    <<"0", "0", "9", "3", "9">> :> 500

\* LotSizeRules.DEFAULT_LOT_SIZES
DEFAULT_LOT_SIZES == [market \in {"CN", "HK", "US"} |->
                         IF market = "US" THEN 1 ELSE 100]

\* whether a string starts with another
StartsWith(str, sub) ==
    /\ Len(str) >= Len(sub)
    /\ SubSeq(str, 1, Len(sub)) = sub

\* str.replace(sub, ''), sub not empty
RECURSIVE Remove(_, _)
Remove(str, sub) ==
    IF str = <<>> THEN <<>>
    ELSE IF StartsWith(str, sub)
        THEN Remove(SubSeq(str, Len(sub) + 1, Len(str)), sub)
    ELSE <<Head(str)>> \o Remove(Tail(str), sub)

Digits == {"0", "1", "2", "3", "4", "5", "6", "7", "8", "9"}

\* str.isdigit()
IsDigit(str) == str # <<>> /\ \A k \in 1..Len(str) : str[k] \in Digits

\* str.zfill(5) of a string of digits
RECURSIVE ZFill5(_)
ZFill5(str) == IF Len(str) >= 5 THEN str ELSE ZFill5(<<"0">> \o str)

\* LotSizeRules.get_lot_size
GetLotSize(symbol, market) ==
    LET stripped == Remove(Remove(Remove(symbol, <<".", "H", "K">>),
                                  <<".", "S", "H">>), <<".", "S", "Z">>)
        clean_symbol == IF market = "HK" /\ IsDigit(stripped)
                            THEN ZFill5(stripped) ELSE stripped
    IN  IF market = "HK" /\ clean_symbol \in DOMAIN HK_STOCK_LOT_SIZES
            THEN HK_STOCK_LOT_SIZES[clean_symbol]
        ELSE IF market \in DOMAIN DEFAULT_LOT_SIZES THEN DEFAULT_LOT_SIZES[market]
        ELSE 100

\* LotSizeRules.round_to_lot, lot_size > 0
RoundToLot(quantity, lot_size) == (quantity \div lot_size) * lot_size

----------------------------------------------------------------------------
(* optimization/grid_search.py *)

\* float('-inf') among the scores
NegInf == 0 - 1000000

\* None among the scores of a heatmap
NoScore == 0 - 1000001

\* metric and constraint names, cut at the prefixes the code looks for:
\* 'max_drawdown' is <<"max_", "drawdown">>
SharpeRatio == <<"sharpe_ratio">>
MaxDrawdown == <<"max_", "drawdown">>
Volatility == <<"volatility">>

\* GridSearchOptimizer.optimization_metric, its default
optimization_metric == SharpeRatio

IsPrefix(part) == part \in {"min_", "max_"}

\* constraint_name.replace('min_', '').replace('max_', '')
MetricName(constraint_name) ==
    SelectSeq(constraint_name, LAMBDA part : ~IsPrefix(part))

\* GridSearchOptimizer._check_constraints
RECURSIVE CheckConstraintsOver(_, _, _)
CheckConstraintsOver(metrics, cons, names) ==
    IF names = {} THEN TRUE
    ELSE LET constraint_name == CHOOSE x \in names : TRUE
             metric_name == MetricName(constraint_name)
             rest == CheckConstraintsOver(metrics, cons, names \ {constraint_name})
         IN  IF metric_name \notin DOMAIN metrics THEN rest
             ELSE IF Head(constraint_name) = "min_"
                 THEN IF metrics[metric_name] < cons[constraint_name]
                          THEN FALSE ELSE rest
             ELSE IF Head(constraint_name) = "max_"
                 THEN IF metrics[metric_name] > cons[constraint_name]
                          THEN FALSE ELSE rest
             ELSE rest

CheckConstraints(metrics, cons) ==
    CheckConstraintsOver(metrics, cons, DOMAIN cons)

\* GridSearchOptimizer.get_total_combinations
RECURSIVE GetTotalCombinations(_)
GetTotalCombinations(grid) ==
    IF grid = <<>> THEN 1
    ELSE Len(Head(grid).values) * GetTotalCombinations(Tail(grid))

\* GridSearchOptimizer._generate_combinations: itertools.product, the last
\* parameter running fastest, each combination a dict name -> value
RECURSIVE GenerateCombinations(_)
GenerateCombinations(grid) ==
    IF grid = <<>> THEN <<EmptyDict>>
    ELSE LET rest == GenerateCombinations(Tail(grid))
             name == Head(grid).name
             With(v) == [k \in 1..Len(rest) |->
                            [n \in DOMAIN rest[k] \cup {name} |->
                                IF n = name THEN v ELSE rest[k][n]]]
             Over[k \in 0..Len(Head(grid).values)] ==
                 IF k = 0 THEN <<>>
                 ELSE Over[k - 1] \o With(Head(grid).values[k])
         IN  Over[Len(Head(grid).values)]

\* the dict optimize records for a combination whose backtest returned
ResultDict(params, score, metrics) ==
    [params |-> params, score |-> score, metrics |-> metrics]

\* the dict optimize records for a combination whose backtest raised
ErrorDict(params, error) ==
    [params |-> params, score |-> NegInf, error |-> error]

\* the try block of optimize's loop, on a backtest that returned; the best
\* so far is [score, params, result]
OptimizeTry(results, best, cons, params, metrics) ==
    LET metric_score ==
            IF optimization_metric \in DOMAIN metrics
                THEN metrics[optimization_metric] ELSE NegInf
        score ==
            IF cons # None /\ ~CheckConstraints(metrics, cons)
                THEN NegInf ELSE metric_score
    IN  [all_results |-> Append(results, ResultDict(params, score, metrics)),
         best |-> IF score > best.score
                      THEN [score |-> score, params |-> params,
                            result |-> [metrics |-> metrics]]
                      ELSE best,
         aborted |-> FALSE]

\* the loop of optimize without its except clause: C20 does not hold of it
OptimizeStepNoExcept(results, best, cons, params, outcome) ==
    IF outcome.raised
        THEN [all_results |-> results, best |-> best, aborted |-> TRUE]
    ELSE OptimizeTry(results, best, cons, params, outcome.metrics)

\* GridSearchOptimizer.optimize: one pass of its loop, on a combination whose
\* backtest returned metrics or raised; aborted is an exception leaving optimize
OptimizeStep(results, best, cons, params, outcome) ==
    IF outcome.raised
        THEN [all_results |-> Append(results, ErrorDict(params, outcome.error)),
              best |-> best,
              aborted |-> FALSE]
    ELSE OptimizeTry(results, best, cons, params, outcome.metrics)

\* sorted(values)
Sorted(values) == SortSeq(values, LAMBDA a, b : a < b)

\* the score of the first result with these two parameter values, None if
\* there is none or it is -inf
CellScore(results, x_param, x_val, y_param, y_val) ==
    LET hits == {k \in 1..Len(results) :
                    /\ results[k].params[x_param] = x_val
                    /\ results[k].params[y_param] = y_val}
    IN  IF hits = {} THEN NoScore
        ELSE LET first == CHOOSE k \in hits : \A j \in hits : k <= j
             IN  IF results[first].score = NegInf THEN NoScore
                 ELSE results[first].score

\* _generate_heatmap_data with a row per value of the first parameter: C18
\* does not hold of it
GenerateHeatmapDataByFirst(grid, results) ==
    IF Len(grid) # 2 THEN None
    ELSE LET x_param == grid[1].name
             y_param == grid[2].name
             x_values == Sorted(grid[1].values)
             y_values == Sorted(grid[2].values)
         IN  [x_param |-> x_param, x_values |-> x_values,
              y_param |-> y_param, y_values |-> y_values,
              z_values |-> [x \in 1..Len(x_values) |->
                             [y \in 1..Len(y_values) |->
                                CellScore(results, x_param, x_values[x],
                                          y_param, y_values[y])]]]

\* GridSearchOptimizer._generate_heatmap_data
GenerateHeatmapData(grid, results) ==
    IF Len(grid) # 2 THEN None
    ELSE LET x_param == grid[1].name
             y_param == grid[2].name
             x_values == Sorted(grid[1].values)
             y_values == Sorted(grid[2].values)
         IN  [x_param |-> x_param, x_values |-> x_values,
              y_param |-> y_param, y_values |-> y_values,
              z_values |-> [y \in 1..Len(y_values) |->
                             [x \in 1..Len(x_values) |->
                                CellScore(results, x_param, x_values[x],
                                          y_param, y_values[y])]]]

\* no optimizer at work
SearchIdle ==
    /\ param_grid = <<>>
    /\ constraints = None
    /\ combo_index = 0
    /\ all_results = <<>>
    /\ best_score = NegInf
    /\ best_params = None
    /\ best_result = None
    /\ search_state = "idle"
    /\ search_result = None

----------------------------------------------------------------------------
(* optimization/walk_forward.py: WalkForwardValidator *)

\* A timestamp counts half days (midnight and noon of each day); a date
\* string 'YYYYMMDD' is the number of its day.  Metrics are in thousandths.
TicksPerDay == 2
DaysPerMonth == 30
OverfitThreshold == 0 - 300
SharpeName == "sharpe_ratio"
ReturnName == "total_return"

Timedelta(days) == days * TicksPerDay
Strftime(ts) == ts \div TicksPerDay
ToDatetime(day) == day * TicksPerDay

MinOf(S) == CHOOSE x \in S : \A y \in S : x <= y
MaxOf(S) == CHOOSE x \in S : \A y \in S : x >= y

\* one pass of the while loop of _generate_periods from current_start: the
\* break, or the window appended and the next current_start
GeneratePeriodsStep(start, max_date, train_months, test_months, step) ==
    LET train_end == start + Timedelta(train_months * DaysPerMonth)
        test_end == train_end + Timedelta(test_months * DaysPerMonth)
    IN  IF test_end > max_date
            THEN [break |-> TRUE]
        ELSE [break |-> FALSE,
              period |-> [train_start |-> Strftime(start),
                          train_end |-> Strftime(train_end),
                          test_start |-> Strftime(train_end + Timedelta(1)),
                          test_end |-> Strftime(test_end)],
              current_start |-> start + Timedelta(step * DaysPerMonth)]

FilterDataByDate(data, start_date, end_date) ==
    {d \in data : d >= ToDatetime(start_date) /\ d <= ToDatetime(end_date)}

\* dict.get(key, default)
Get(dict, key, default) == IF key \in DOMAIN dict THEN dict[key] ELSE default

\* what the backtests of one window do: the training run raises, or the grid
\* search returns without a best_result, or it gives metrics; the test run
\* raises or gives metrics
TrainRaises == [raised |-> TRUE]
TrainWithoutBest == [raised |-> FALSE, best_result |-> None]
TrainResult(metrics) == [raised |-> FALSE, best_result |-> [metrics |-> metrics]]
TestRaises == [raised |-> TRUE]
TestResult(metrics) == [raised |-> FALSE, metrics |-> metrics]

\* _validate_period keeping the window of a failed evaluation, with the
\* metrics it has
ValidatePeriodKeepFailed(data, period_cfg, period_id, outcome) ==
    [period_id |-> period_id,
     train_start |-> period_cfg.train_start,
     train_end |-> period_cfg.train_end,
     test_start |-> period_cfg.test_start,
     test_end |-> period_cfg.test_end,
     train_metrics |-> IF outcome # None /\ ~outcome.train.raised
                          /\ outcome.train.best_result # None
                           THEN outcome.train.best_result.metrics ELSE EmptyDict,
     test_metrics |-> IF outcome # None /\ ~outcome.test.raised
                          THEN outcome.test.metrics ELSE EmptyDict]

\* _validate_period: None or the WalkForwardPeriod
ValidatePeriod(data, period_cfg, period_id, outcome) ==
    LET train_data == FilterDataByDate(data, period_cfg.train_start,
                                       period_cfg.train_end)
        test_data == FilterDataByDate(data, period_cfg.test_start,
                                      period_cfg.test_end)
    IN  IF train_data = {} \/ test_data = {} THEN None
        ELSE IF outcome.train.raised THEN None
        ELSE IF outcome.train.best_result = None THEN None
        ELSE IF outcome.test.raised THEN None
        ELSE [period_id |-> period_id,
              train_start |-> period_cfg.train_start,
              train_end |-> period_cfg.train_end,
              test_start |-> period_cfg.test_start,
              test_end |-> period_cfg.test_end,
              train_metrics |-> outcome.train.best_result.metrics,
              test_metrics |-> outcome.test.metrics]

\* WalkForwardPeriod.get_degradation
GetDegradation(p, metric) ==
    LET train_val == Get(p.train_metrics, metric, 0)
        test_val == Get(p.test_metrics, metric, 0)
    IN  IF train_val = 0 THEN 0
        ELSE IF train_val > 0
            THEN RoundDiv((test_val - train_val) * 1000, train_val)
        ELSE RoundDiv((train_val - test_val) * 1000, 0 - train_val)

SumSeq(s) == SumOver(s, DOMAIN s)
Average(s) == RoundDiv(SumSeq(s), Len(s))

CalculateOverallMetrics(kept) ==
    IF kept = <<>> THEN EmptyDict
    ELSE
    LET train_sharpes == [i \in DOMAIN kept |-> Get(kept[i].train_metrics, SharpeName, 0)]
        test_sharpes == [i \in DOMAIN kept |-> Get(kept[i].test_metrics, SharpeName, 0)]
        train_returns == [i \in DOMAIN kept |-> Get(kept[i].train_metrics, ReturnName, 0)]
        test_returns == [i \in DOMAIN kept |-> Get(kept[i].test_metrics, ReturnName, 0)]
        degradations == [i \in DOMAIN kept |-> GetDegradation(kept[i], SharpeName)]
    IN  [avg_train_sharpe |-> Average(train_sharpes),
         avg_test_sharpe |-> Average(test_sharpes),
         avg_train_return |-> Average(train_returns),
         avg_test_return |-> Average(test_returns),
         avg_degradation |-> Average(degradations),
         min_test_sharpe |-> MinOf({test_sharpes[i] : i \in DOMAIN kept}),
         max_test_sharpe |-> MaxOf({test_sharpes[i] : i \in DOMAIN kept})]

\* the end of validate: the WalkForwardResult of the windows kept
WalkForwardResult(kept) ==
    LET overall_metrics == CalculateOverallMetrics(kept)
        avg_degradation == Get(overall_metrics, "avg_degradation", 0)
    IN  [periods |-> kept,
         overall_metrics |-> overall_metrics,
         is_overfitting |-> avg_degradation < OverfitThreshold,
         total_periods |-> Len(kept)]

\* no validator at work
WalkIdle ==
    /\ train_period_months = 0
    /\ test_period_months = 0
    /\ step_months = 0
    /\ data_dates = {}
    /\ current_start = 0
    /\ periods_config = <<>>
    /\ period_index = 0
    /\ periods = <<>>
    /\ walk_log = <<>>
    /\ walk_state = "idle"
    /\ walk_result = None

\* no orchestrator at work
NoResult ==
    /\ metadata = EmptyDict
    /\ run_results = <<>>

----------------------------------------------------------------------------
(* The callers' inputs *)

\* the date of the last call
Clock == IF last_call = None THEN NoDate ELSE last_call.current_date

\* bars are processed in non-decreasing date order: the same day again or
\* the next one, at midnight as pandas dates are
NextDates == {d \in Dates : d.tod = 0 /\ d.day >= Clock.day /\ d.day <= Clock.day + 1}

\* the status flags of a bar: at most one of suspended, limit-up, limit-down
OneFlag ==
    {f \in [is_suspended : BOOLEAN, is_limit_up : BOOLEAN, is_limit_down : BOOLEAN] :
        Cardinality({k \in {"is_suspended", "is_limit_up", "is_limit_down"} : f[k]}) <= 1}

MarketData(symbol, date, close, prev_close, flags, board) ==
    [symbol |-> symbol, date |-> date, close |-> close, prev_close |-> prev_close,
     is_suspended |-> flags.is_suspended, is_limit_up |-> flags.is_limit_up,
     is_limit_down |-> flags.is_limit_down, board_type |-> board]

----------------------------------------------------------------------------
(* The engine driven directly, as tests/backtest/test_trading_engine.py does *)

\* TradingEngine.__init__
EngineInit ==
    /\ environment \in Environments
    /\ initial_capital \in Capitals
    /\ slippage_bps \in SlippageChoices
    /\ risk_config \in RiskConfigs
    /\ cash = initial_capital
    /\ positions = EmptyDict
    /\ orders = <<>>
    /\ trades = <<>>
    /\ equity_history = EmptyDict
    /\ last_call = None
    /\ last_result = None
    /\ risk_verdicts = <<>>

Init ==
    /\ EngineInit
    /\ equity_records = <<>>
    /\ df_rows = <<>>
    /\ run_state = "idle"
    /\ probe = None
    /\ peak_equity = initial_capital
    /\ SearchIdle
    /\ WalkIdle
    /\ NoResult

ProcessSignal ==
    /\ Len(orders) < MaxOrders
    /\ \E symbol \in Symbols, date \in NextDates, action \in {1, 0, -1},
          close \in Prices, prev_close \in Prices, flags \in OneFlag :
            ProcessSignalOn([symbol |-> symbol, date |-> date, action |-> action,
                             price |-> close],
                            MarketData(symbol, date, close, prev_close, flags,
                                       environment.board),
                            date)
    /\ UNCHANGED <<engine_config, run_vars, probe, peak_equity, search_vars, walk_vars, result_vars>>

Next == ProcessSignal

Spec == Init /\ [][Next]_vars

----------------------------------------------------------------------------
(* BacktestOrchestrator.run: the day loop over the merged, date-sorted frame *)

\* the flags of a bar built in run(): is_suspended from the row, the limit
\* flags left at their default False
RowFlags(is_suspended) ==
    [is_suspended |-> is_suspended, is_limit_up |-> FALSE, is_limit_down |-> FALSE]

\* the dates a next row of df can carry: df is sorted by date
NextRowDates ==
    {d \in Dates : d.tod = 0 /\
        (df_rows = <<>> \/ d.day > df_rows[Len(df_rows)].date.day)}

\* BacktestOrchestrator.__init__ and run() up to the loop, on an engine built
\* by TradingEngine.__init__
InitRun ==
    /\ EngineInit
    /\ equity_records = <<>>
    /\ df_rows = <<>>
    /\ run_state = "loop"
    /\ probe = None
    /\ peak_equity = initial_capital
    /\ SearchIdle
    /\ WalkIdle
    /\ metadata = [risk_enabled |-> risk_config # None]
    /\ run_results = <<>>

\* one iteration of "for idx, row in df.iterrows()"
RunBar ==
    /\ run_state = "loop"
    /\ \E symbol \in Symbols, date \in NextRowDates, signal_value \in {1, 0, -1},
          close \in Prices, prev_close \in Prices, is_suspended \in BOOLEAN :
        /\ df_rows' = Append(df_rows, [date |-> date, signal |-> signal_value])
        /\ IF ~IsTradingDay(date)
             THEN UNCHANGED <<engine_state, equity_records>>
             ELSE /\ ProcessSignalOn([symbol |-> symbol, date |-> date,
                                      action |-> signal_value, price |-> close],
                                     MarketData(symbol, date, close, prev_close,
                                                RowFlags(is_suspended),
                                                environment.board),
                                     date)
                  /\ equity_records' = Append(equity_records,
                        [date |-> date,
                         equity |-> TotalEquity(cash', positions'),
                         cash |-> cash',
                         position_value |-> PortfolioMarketValue(positions')])
    /\ UNCHANGED <<engine_config, run_state, probe, peak_equity, search_vars, walk_vars, result_vars>>

\* MetricsCalculator.calculate_all_metrics: a new dict; of its entries
\* total_trades is followed
CalculateAllMetrics(equity_curve, trade_list) ==
    IF equity_curve = <<>> THEN EmptyDict
    ELSE [total_trades |->
            Cardinality({i \in 1..Len(trade_list) : trade_list[i].side = "BUY"})]

\* self.metadata.update(...) at the end of run
MetadataUpdate(old, rows, records, order_list, trade_list) ==
    [risk_enabled |-> old.risk_enabled,
     data_points |-> Len(rows),
     trading_days |-> Len(records),
     total_orders |-> Len(order_list),
     total_trades |-> Len(trade_list)]

\* the BacktestResult run builds: equity_curve and metrics are objects made
\* by this call; trades is the list TradingEngine.trades itself and metadata
\* the dict BacktestOrchestrator.metadata itself, not copies of them
BacktestResult(records, trade_list) ==
    [trades |-> "trading_engine.trades",
     equity_curve |-> records,
     metrics |-> CalculateAllMetrics(records, trade_list),
     metadata |-> "self.metadata"]

\* the end of the frame: the rest of run()
RunReturn ==
    /\ run_state = "loop"
    /\ run_state' =
         IF equity_records = <<>> THEN "KeyError"
         ELSE IF risk_config # None THEN "AttributeError"
         ELSE "returned"
    /\ metadata' =
         IF equity_records = <<>> THEN metadata
         ELSE MetadataUpdate(metadata, df_rows, equity_records, orders, trades)
    /\ run_results' =
         IF equity_records # <<>> /\ risk_config = None
             THEN Append(run_results, BacktestResult(equity_records, trades))
         ELSE run_results
    /\ UNCHANGED <<engine_config, engine_state, equity_records, df_rows, probe,
                   peak_equity, search_vars, walk_vars>>

NextRun == RunBar \/ RunReturn

SpecRun == InitRun /\ [][NextRun]_vars

----------------------------------------------------------------------------
(* validate_order, match_order and _execute_order called directly on drawn
   inputs, as tests/backtest/test_validator.py and test_matching_engine.py do *)

Quantities == {LOT, 2 * LOT}

\* the positions of the drawn portfolio: none, or one holding
ProbePositions ==
    {EmptyDict} \cup
    {[s \in {symbol} |-> [symbol |-> symbol, quantity |-> q, avg_cost |-> 490,
                          current_price |-> 490, buy_date |-> d]] :
        symbol \in Symbols, q \in Quantities, d \in Dates}

ProbeOrders(current_date) ==
    [order_id : {1}, symbol : Symbols, side : {"BUY", "SELL"},
     quantity : Quantities, limit_price : Prices, created_at : {current_date},
     status : {"PENDING"}]

AllFlags == [is_suspended : BOOLEAN, is_limit_up : BOOLEAN, is_limit_down : BOOLEAN]

\* an engine whose portfolio is drawn, and the arguments of one call on it
InitProbe ==
    /\ environment \in Environments
    /\ initial_capital \in Capitals
    /\ slippage_bps \in SlippageChoices
    /\ risk_config = None
    /\ cash \in Capitals
    /\ positions \in ProbePositions
    /\ orders = <<>>
    /\ trades = <<>>
    /\ equity_history = EmptyDict
    /\ last_call = None
    /\ last_result = None
    /\ risk_verdicts = <<>>
    /\ equity_records = <<>>
    /\ df_rows = <<>>
    /\ run_state = "idle"
    /\ peak_equity = initial_capital
    /\ SearchIdle
    /\ WalkIdle
    /\ NoResult
    /\ \E d \in Dates, f \in AllFlags, cl \in Prices, pc \in Prices :
         \E o \in ProbeOrders(d) :
            probe = [op |-> "none", order |-> o,
                     market_data |-> MarketData(o.symbol, d, cl, pc, f,
                                                environment.board),
                     cash |-> cash, positions |-> positions, current_date |-> d,
                     result |-> None]

\* TradingRulesValidator.validate_order(order, market_data, portfolio, current_date)
ValidateOrderCall ==
    /\ probe.op = "none"
    /\ probe' = [probe EXCEPT
                    !.op = "validate_order",
                    !.result = ValidateOrder(environment, probe.order,
                                   probe.market_data, cash, positions,
                                   probe.current_date, None)]
    /\ UNCHANGED <<engine_config, engine_state, run_vars, peak_equity, search_vars, walk_vars, result_vars>>

\* MatchingEngine.match_order(order, market_data)
MatchOrderCall ==
    /\ probe.op = "none"
    /\ probe' = [probe EXCEPT
                    !.op = "match_order",
                    !.result = MatchOrder(environment, slippage_bps, probe.order,
                                   probe.market_data, None, 1)]
    /\ UNCHANGED <<engine_config, engine_state, run_vars, peak_equity, search_vars, walk_vars, result_vars>>

\* TradingEngine.process_signal(signal, market_data, current_date)
ProcessSignalCall ==
    /\ probe.op = "none"
    /\ \E action \in {1, 0, -1} :
         ProcessSignalOn([symbol |-> probe.market_data.symbol,
                          date |-> probe.current_date, action |-> action,
                          price |-> probe.market_data.close],
                         probe.market_data, probe.current_date)
    /\ probe' = [probe EXCEPT !.op = "process_signal", !.result = last_result']
    /\ UNCHANGED <<engine_config, run_vars, peak_equity, search_vars, walk_vars, result_vars>>

NextProbe == ValidateOrderCall \/ MatchOrderCall \/ ProcessSignalCall

SpecProbe == InitProbe /\ [][NextProbe]_vars

----------------------------------------------------------------------------
(* The validator and the matching engine of any market, called directly with
   listing information, as tests/backtest/test_validator.py and
   test_matching_engine.py do *)

RuleEnvironments ==
    [market : {"CN", "HK", "US"}, board : {"MAIN"}, channel : {"DIRECT", "CONNECT"}]

\* board values a caller passes: the boards of the rule tables and one of none
Boards == {"MAIN", "GEM", "STAR", "BSE", "ST", "HK_MAIN", "NYSE", "XYZ"}

\* a Shanghai and a Shenzhen symbol
RuleSymbols == {<<"6", "0", "0", "0", "0", "0">>, <<"0", "0", "0", "0", "0", "1">>}

\* midnight dates
Days == {d \in Dates : d.tod = 0}

\* stock_info: absent, without ipo_date, or listed on one of the days
StockInfos == {None, [ipo_date |-> None]} \cup {[ipo_date |-> d] : d \in Days}

\* order amounts, in money units: below and above the amount at which
\* amount * commission_rate reaches min_commission
Amounts == {Yuan(490), Yuan(986), Yuan(19720)}

\* an exception raised instead of a value returned
Raises(x) == "raised" \in DOMAIN x

\* validate_order, or the KeyError get_price_limits raises inside it
ValidateOrderOrRaise(env, order, market_data, c, ps, current_date, stock_info) ==
    IF Raises(GetPriceLimits(env, market_data.prev_close, market_data.board_type,
                             stock_info, market_data.date))
        THEN [raised |-> "KeyError"]
        ELSE ValidateOrder(env, order, market_data, c, ps, current_date, stock_info)

\* match_order, or the KeyError get_price_limits raises inside it
MatchOrderOrRaise(env, bps, order, market_data, stock_info, trade_id) ==
    IF market_data.is_suspended THEN None
    ELSE IF Raises(GetPriceLimits(env, market_data.prev_close,
                                  market_data.board_type, stock_info,
                                  market_data.date))
        THEN [raised |-> "KeyError"]
        ELSE MatchOrder(env, bps, order, market_data, stock_info, trade_id)

\* a validator and a matching engine of the environment, nothing called yet
InitRules ==
    /\ environment \in RuleEnvironments
    /\ initial_capital \in Capitals
    /\ slippage_bps \in SlippageChoices
    /\ risk_config = None
    /\ cash = initial_capital
    /\ positions = EmptyDict
    /\ orders = <<>>
    /\ trades = <<>>
    /\ equity_history = EmptyDict
    /\ last_call = None
    /\ last_result = None
    /\ risk_verdicts = <<>>
    /\ equity_records = <<>>
    /\ df_rows = <<>>
    /\ run_state = "idle"
    /\ peak_equity = initial_capital
    /\ SearchIdle
    /\ WalkIdle
    /\ NoResult
    /\ probe = [op |-> "none"]

\* TradingRulesValidator.get_price_limits(prev_close, board, stock_info, current_date)
GetPriceLimitsCall ==
    /\ probe.op = "none"
    /\ \E prev_close \in Prices, board \in Boards, stock_info \in StockInfos,
          current_date \in Days :
         probe' = [op |-> "get_price_limits", prev_close |-> prev_close,
                   board |-> board, stock_info |-> stock_info,
                   current_date |-> current_date,
                   result |-> GetPriceLimits(environment, prev_close, board,
                                             stock_info, current_date)]
    /\ UNCHANGED <<engine_config, engine_state, run_vars, peak_equity, search_vars, walk_vars, result_vars>>

\* TradingRulesValidator.validate_order(order, market_data, portfolio,
\* current_date, stock_info)
ValidateListedOrderCall ==
    /\ probe.op = "none"
    /\ \E d \in Days, f \in AllFlags, cl \in Prices, pc \in Prices,
          board \in Boards, stock_info \in StockInfos, symbol \in RuleSymbols,
          side \in {"BUY", "SELL"} :
         LET order == [order_id |-> 1, symbol |-> symbol, side |-> side,
                       quantity |-> LOT, limit_price |-> cl, created_at |-> d,
                       status |-> "PENDING"]
             market_data == MarketData(symbol, d, cl, pc, f, board)
         IN  probe' = [op |-> "validate_order", order |-> order,
                       market_data |-> market_data, stock_info |-> stock_info,
                       result |-> ValidateOrderOrRaise(environment, order,
                                      market_data, cash, positions, d, stock_info)]
    /\ UNCHANGED <<engine_config, engine_state, run_vars, peak_equity, search_vars, walk_vars, result_vars>>

\* MatchingEngine.match_order(order, market_data, stock_info)
MatchListedOrderCall ==
    /\ probe.op = "none"
    /\ \E d \in Days, f \in AllFlags, cl \in Prices, pc \in Prices,
          board \in Boards, stock_info \in StockInfos, symbol \in RuleSymbols,
          side \in {"BUY", "SELL"} :
         LET order == [order_id |-> 1, symbol |-> symbol, side |-> side,
                       quantity |-> LOT, limit_price |-> cl, created_at |-> d,
                       status |-> "PENDING"]
             market_data == MarketData(symbol, d, cl, pc, f, board)
         IN  probe' = [op |-> "match_order", order |-> order,
                       market_data |-> market_data, stock_info |-> stock_info,
                       result |-> MatchOrderOrRaise(environment, slippage_bps,
                                      order, market_data, stock_info, 1)]
    /\ UNCHANGED <<engine_config, engine_state, run_vars, peak_equity, search_vars, walk_vars, result_vars>>

\* MatchingEngine._calculate_commission(order, amount)
CalculateCommissionCall ==
    /\ probe.op = "none"
    /\ \E symbol \in RuleSymbols, side \in {"BUY", "SELL"}, amount \in Amounts :
         LET order == [order_id |-> 1, symbol |-> symbol, side |-> side,
                       quantity |-> LOT, limit_price |-> 490,
                       created_at |-> NoDate, status |-> "PENDING"]
         IN  probe' = [op |-> "_calculate_commission", order |-> order,
                       amount |-> amount,
                       result |-> CalculateCommission(environment, order, amount)]
    /\ UNCHANGED <<engine_config, engine_state, run_vars, peak_equity, search_vars, walk_vars, result_vars>>

\* symbols of the three markets: Shanghai, Hong Kong with a lot of 400 (with
\* and without its leading zeros and suffix), Hong Kong without an entry, US
LotSymbols ==
    {<<"6", "0", "0", "0", "0", "0">>,
     <<"0", "0", "0", "0", "5">>,
     <<"5", ".", "H", "K">>,
     <<"0", "2", "3", "1", "8">>,
     <<"A", "A", "P", "L">>}

\* TradingEngine.process_signal with a buy signal on a fresh engine of the
\* environment, on a bar of a board its market has rules for
BuySignalCall ==
    /\ probe.op = "none"
    /\ \E symbol \in LotSymbols, d \in Days, close \in Prices :
         LET board == IF environment.market = "US" THEN "NYSE" ELSE "MAIN"
             signal == [symbol |-> symbol, date |-> d, action |-> 1,
                        price |-> close]
             market_data == MarketData(symbol, d, close, close,
                                [is_suspended |-> FALSE, is_limit_up |-> FALSE,
                                 is_limit_down |-> FALSE], board)
         IN  /\ ProcessSignalOn(signal, market_data, d)
             /\ probe' = [op |-> "process_signal", signal |-> signal,
                          market_data |-> market_data]
    /\ UNCHANGED <<engine_config, run_vars, peak_equity, search_vars, walk_vars, result_vars>>

NextRules ==
    \/ BuySignalCall
    \/ GetPriceLimitsCall
    \/ ValidateListedOrderCall
    \/ MatchListedOrderCall
    \/ CalculateCommissionCall

SpecRules == InitRules /\ [][NextRules]_vars

----------------------------------------------------------------------------
(* A RiskManager called bar after bar through its public methods: check_exit_signals,
   update_peak_equity and check_order_risk *)

\* RiskConfig with each exit line configured or not (None), and two pairs of
\* position limits
RiskManagerConfigs ==
    {[max_position_pct |-> IF dd = NoPct THEN 30 ELSE 100,
      max_total_exposure |-> IF dd = NoPct THEN 100 ELSE 50,
      stop_loss_pct |-> sl, stop_profit_pct |-> sp, max_drawdown_pct |-> dd] :
        sl \in {NoPct, 10}, sp \in {NoPct, 20}, dd \in {NoPct, 20}}

\* total_equity of the portfolio dict
Equities == {Yuan(800), Yuan(1000), Yuan(1200)}

CostPrice == 500

\* prices of current_data, in cents: on the stop-loss line of CostPrice,
\* between the lines, on the stop-profit line
ExitPrices == {450, 480, 600}

\* dicts from some of the symbols to the values
PartialDicts(symbols, values) ==
    UNION {[S -> values] : S \in SUBSET symbols}

\* portfolio["positions"]: the first symbol with one lot, the second with two
RiskPositions ==
    {[s \in S |-> [shares |-> IF Head(s) = "6" THEN LOT ELSE 2 * LOT,
                   cost_price |-> CostPrice]] : S \in SUBSET RuleSymbols}

\* the portfolio dicts given to the RiskManager
RiskPortfolios ==
    {[total_equity |-> eq, cash |-> 0, positions |-> ps, current_prices |-> cp] :
        eq \in Equities, ps \in RiskPositions,
        cp \in PartialDicts({<<"6", "0", "0", "0", "0", "0">>}, {450})}

\* RiskManager(config, initial_capital)
InitRisk ==
    /\ environment \in Environments
    /\ initial_capital \in Capitals
    /\ slippage_bps = 5
    /\ risk_config \in RiskManagerConfigs
    /\ cash = initial_capital
    /\ positions = EmptyDict
    /\ orders = <<>>
    /\ trades = <<>>
    /\ equity_history = EmptyDict
    /\ last_call = None
    /\ last_result = None
    /\ risk_verdicts = <<>>
    /\ equity_records = <<>>
    /\ df_rows = <<>>
    /\ run_state = "idle"
    /\ peak_equity = initial_capital
    /\ SearchIdle
    /\ WalkIdle
    /\ NoResult
    /\ probe = [op |-> "none"]

\* RiskManager.check_exit_signals(portfolio, current_data)
CheckExitSignalsCall ==
    /\ \E portfolio \in RiskPortfolios,
          current_data \in PartialDicts(RuleSymbols, ExitPrices) :
         \E out \in {CheckExitSignals(risk_config, peak_equity, portfolio,
                                      current_data)} :
            /\ peak_equity' = out.peak_equity
            /\ probe' = [op |-> "check_exit_signals", portfolio |-> portfolio,
                         current_data |-> current_data, result |-> out.orders]
    /\ UNCHANGED <<engine_config, engine_state, run_vars, search_vars, walk_vars, result_vars>>

\* RiskManager.update_peak_equity(current_equity)
UpdatePeakEquityCall ==
    /\ \E current_equity \in Equities :
         /\ peak_equity' = UpdatePeakEquity(peak_equity, current_equity)
         /\ probe' = [op |-> "update_peak_equity",
                      current_equity |-> current_equity]
    /\ UNCHANGED <<engine_config, engine_state, run_vars, search_vars, walk_vars, result_vars>>

\* RiskManager.check_order_risk(order, portfolio)
CheckOrderRiskCall ==
    /\ \E portfolio \in RiskPortfolios, symbol \in RuleSymbols,
          shares \in {LOT, 3 * LOT}, price \in {450, 600} :
         LET order == [symbol |-> symbol, shares |-> shares, price |-> price]
         IN  probe' = [op |-> "check_order_risk", order |-> order,
                       portfolio |-> portfolio,
                       result |-> CheckOrderRisk(risk_config, order, portfolio)]
    /\ UNCHANGED <<engine_config, engine_state, run_vars, peak_equity, search_vars, walk_vars, result_vars>>

NextRisk ==
    \/ CheckExitSignalsCall
    \/ UpdatePeakEquityCall
    \/ CheckOrderRiskCall

SpecRisk == InitRisk /\ [][NextRisk]_vars

----------------------------------------------------------------------------
(* GridSearchOptimizer.optimize, one combination after the other *)

\* param_grid: two parameters of 2 and 3 values (the first unsorted), one
\* parameter, three parameters
ParamGrids ==
    {<<[name |-> "short_period", values |-> <<10, 5>>],
       [name |-> "long_period", values |-> <<20, 30, 40>>]>>,
     <<[name |-> "short_period", values |-> <<5, 10, 15>>]>>,
     <<[name |-> "short_period", values |-> <<5, 10>>],
       [name |-> "long_period", values |-> <<20>>],
       [name |-> "threshold", values |-> <<1, 2>>]>>}

\* the constraints argument: bounds in the units of the metrics below
ConstraintChoices ==
    {None,
     [c \in {<<"max_", "volatility">>} |-> 20],
     [c \in {<<"min_", "max_", "drawdown">>} |-> 0 - 20],
     [c \in {<<"min_", "sharpe_ratio">>, <<"max_", "volatility">>} |->
         IF c = <<"min_", "sharpe_ratio">> THEN 2 ELSE 20]}

\* the metrics of a backtest: sharpe_ratio in units, max_drawdown and
\* volatility in percent
MetricsOf(sharpe, drawdown, vol) ==
    [m \in {SharpeRatio, MaxDrawdown, Volatility} |->
        IF m = SharpeRatio THEN sharpe
        ELSE IF m = MaxDrawdown THEN drawdown ELSE vol]

\* what _run_single_backtest does on a combination: returns a result with
\* metrics, or raises
Outcomes ==
    {[raised |-> TRUE, error |-> "boom"]}
    \cup {[raised |-> FALSE, metrics |-> m] :
            m \in {MetricsOf(2, 0 - 10, 10), MetricsOf(3, 0 - 35, 10),
                   MetricsOf(1, 0 - 10, 30), MetricsOf(2, 0 - 10, 30)}}

\* GridSearchOptimizer(config, param_grid).optimize(market_data,
\* strategy_func, constraints) at the head of its loop
InitSearch ==
    /\ environment \in Environments
    /\ initial_capital \in Capitals
    /\ slippage_bps = 5
    /\ risk_config = None
    /\ cash = initial_capital
    /\ positions = EmptyDict
    /\ orders = <<>>
    /\ trades = <<>>
    /\ equity_history = EmptyDict
    /\ last_call = None
    /\ last_result = None
    /\ risk_verdicts = <<>>
    /\ equity_records = <<>>
    /\ df_rows = <<>>
    /\ run_state = "idle"
    /\ peak_equity = initial_capital
    /\ probe = [op |-> "none"]
    /\ param_grid \in ParamGrids
    /\ constraints \in ConstraintChoices
    /\ combo_index = 0
    /\ all_results = <<>>
    /\ best_score = NegInf
    /\ best_params = None
    /\ best_result = None
    /\ search_state = "loop"
    /\ search_result = None
    /\ WalkIdle
    /\ NoResult

\* one pass of the loop: the backtest of the next combination and its record
EvaluateCombination ==
    /\ search_state = "loop"
    /\ combo_index < Len(GenerateCombinations(param_grid))
    /\ \E outcome \in Outcomes :
         \E out \in {OptimizeStep(all_results,
                                  [score |-> best_score, params |-> best_params,
                                   result |-> best_result],
                                  constraints,
                                  GenerateCombinations(param_grid)[combo_index + 1],
                                  outcome)} :
            /\ all_results' = out.all_results
            /\ best_score' = out.best.score
            /\ best_params' = out.best.params
            /\ best_result' = out.best.result
            /\ search_state' = IF out.aborted THEN "raised" ELSE "loop"
            /\ probe' = [op |-> "_run_single_backtest",
                         params |-> GenerateCombinations(param_grid)[combo_index + 1],
                         outcome |-> outcome]
    /\ combo_index' = combo_index + 1
    /\ UNCHANGED <<engine_config, engine_state, run_vars, peak_equity,
                   param_grid, constraints, search_result, walk_vars, result_vars>>

\* after the loop: the heatmap and the GridSearchResult
OptimizeReturn ==
    /\ search_state = "loop"
    /\ combo_index = Len(GenerateCombinations(param_grid))
    /\ search_state' = "returned"
    /\ search_result' =
         [best_params |-> best_params,
          best_score |-> best_score,
          best_result |-> best_result,
          all_results |-> all_results,
          heatmap_data |-> GenerateHeatmapData(param_grid, all_results),
          total_combinations |-> Len(GenerateCombinations(param_grid))]
    /\ UNCHANGED <<engine_config, engine_state, run_vars, probe, peak_equity,
                   param_grid, constraints, combo_index, all_results, best_score,
                   best_params, best_result, walk_vars, result_vars>>

NextSearch ==
    \/ EvaluateCombination
    \/ OptimizeReturn

SpecSearch == InitSearch /\ [][NextSearch]_vars

----------------------------------------------------------------------------
(* Properties of the engine driven directly (Spec) *)

\* C1: portfolio.cash is never negative after any sequence of process_signal
\* calls: no buy is filled whose total cost (quantity at the execution price
\* plus all fees) exceeds the cash available when it is filled.
C1_CashNeverNegative == cash >= 0

\* C3: an order that RiskManager.check_order_risk rejects (on the portfolio
\* as it is when the order is created) is never filled and no trade carries
\* its id: the risk check comes before validation and matching.
C3_RiskGateFirst ==
    \A i \in 1..Len(orders) :
        risk_verdicts[i].status = "rejected" =>
            /\ orders[i].status # "FILLED"
            /\ \A j \in 1..Len(trades) : trades[j].order_id # orders[i].order_id

\* C4: when validate_order reports the order invalid or match_order returns
\* None, process_signal returns None, cash and positions are what they were
\* just before the order was created (after the mark-price refresh), no trade
\* is appended and exactly one order, with status REJECTED, is appended.
C4_GateFailure ==
    [][(last_call' # None /\ last_call'.path \in {"invalid", "unmatched"}) =>
          /\ last_result' = None
          /\ cash' = cash
          /\ positions' = UpdatePositionPrices(positions,
                              [symbol |-> last_call'.symbol,
                               close |-> last_call'.close])
          /\ trades' = trades
          /\ Len(orders') = Len(orders) + 1
          /\ SubSeq(orders', 1, Len(orders)) = orders
          /\ orders'[Len(orders')].status = "REJECTED"]_vars

\* C4 witness: a rejected order, and a later bar whose order was filled
C4_Witness ==
    /\ Len(orders) = 2
    /\ orders[1].status = "REJECTED"
    /\ orders[2].status = "FILLED"
    /\ last_call.path = "filled"
    /\ last_result # None

\* C5: every recorded order is FILLED or REJECTED, the trade list holds
\* exactly one trade per FILLED order with that order's id, symbol, side and
\* quantity, no trade refers to a REJECTED order, and a recorded order is
\* never changed again.
C5_OrderToTrade ==
    /\ [](/\ \A i \in 1..Len(orders) : orders[i].status \in {"FILLED", "REJECTED"}
          /\ \A i \in 1..Len(orders) :
                Cardinality({j \in 1..Len(trades) :
                                trades[j].order_id = orders[i].order_id})
                    = (IF orders[i].status = "FILLED" THEN 1 ELSE 0)
          /\ \A j \in 1..Len(trades) :
                \E i \in 1..Len(orders) :
                    /\ orders[i].order_id = trades[j].order_id
                    /\ orders[i].status = "FILLED"
                    /\ orders[i].symbol = trades[j].symbol
                    /\ orders[i].side = trades[j].side
                    /\ orders[i].quantity = trades[j].quantity
          /\ \A i, k \in 1..Len(orders) :
                orders[i].order_id = orders[k].order_id => i = k)
    /\ [][/\ Len(orders') >= Len(orders)
          /\ \A i \in 1..Len(orders) : orders'[i] = orders[i]
          /\ Len(trades') >= Len(trades)
          /\ \A j \in 1..Len(trades) : trades'[j] = trades[j]]_vars

\* C5 witness: a filled order with its trade, then a rejected order
C5_Witness ==
    /\ Len(orders) = 2
    /\ orders[1].status = "FILLED"
    /\ orders[2].status = "REJECTED"
    /\ Len(trades) = 1
    /\ trades[1].order_id = orders[1].order_id

\* C6: a buy signal for a held symbol, a sell signal for a symbol not held
\* and a hold signal create no order and no trade and leave cash and the
\* position's quantity, average cost and buy date unchanged; only the mark
\* price and the day's equity record are updated.
C6_NoOps ==
    [][(/\ last_call' # None
        /\ \/ last_call'.action = 0
           \/ last_call'.action = 1 /\ HasPosition(positions, last_call'.symbol)
           \/ last_call'.action = -1 /\ GetPosition(positions, last_call'.symbol) = None)
       =>
          /\ orders' = orders
          /\ trades' = trades
          /\ last_result' = None
          /\ cash' = cash
          /\ positions' = UpdatePositionPrices(positions,
                              [symbol |-> last_call'.symbol,
                               close |-> last_call'.close])
          /\ equity_history' =
                DictSet(equity_history, last_call'.current_date,
                        TotalEquity(cash, positions'))]_vars

\* C6 witness: a buy signal on a day after the day the held position was
\* bought, which moved the mark price away from the cost and ordered nothing
C6_Witness ==
    /\ last_call # None
    /\ last_call.action = 1
    /\ last_call.path = "no_order"
    /\ HasPosition(positions, last_call.symbol)
    /\ positions[last_call.symbol].buy_date.day < last_call.current_date.day
    /\ positions[last_call.symbol].current_price = last_call.close
    /\ positions[last_call.symbol].current_price # positions[last_call.symbol].avg_cost
    /\ Len(orders) = 1

\* C7: total_equity right after a fill is at most total_equity right before
\* it, both marked at the bar's close, the difference being the slippage and
\* the fees of the fill; a call that fills nothing leaves total_equity at the
\* value recorded after the mark-price refresh.
C7_NoEquityCreated ==
    last_call # None =>
        LET before == equity_history[last_call.current_date]
            after == TotalEquity(cash, positions)
        IN  IF last_call.path = "filled"
                THEN /\ after <= before
                     /\ before - after = last_result.slippage + last_result.commission
                ELSE after = before

----------------------------------------------------------------------------
(* Properties of BacktestOrchestrator.run (SpecRun) *)

----------------------------------------------------------------------------
(* Properties of single calls on a drawn portfolio (SpecProbe) *)

\* C2: a sell order for a position bought on the same calendar day as the
\* current date is rejected and the position stays held, whatever the time
\* of day of either timestamp; a sell order on a later trading day for at
\* most the held quantity is accepted when the bar is neither suspended nor
\* at its lower limit.
C2_TPlus1 ==
    LET held == GetPosition(probe.positions, probe.order.symbol)
        md == probe.market_data
    IN  held # None =>
          /\ (probe.op = "validate_order" /\ probe.order.side = "SELL") =>
                /\ held.buy_date.day = probe.current_date.day =>
                      ~probe.result.is_valid
                /\ (/\ held.buy_date.day < probe.current_date.day
                    /\ IsTradingDay(probe.current_date)
                    /\ probe.order.quantity <= held.quantity
                    /\ ~md.is_suspended
                    /\ ~md.is_limit_down) => probe.result.is_valid
          /\ (probe.op = "process_signal" /\ last_call.action = -1) =>
                /\ held.buy_date.day = probe.current_date.day =>
                      /\ last_result = None
                      /\ trades = <<>>
                      /\ HasPosition(positions, probe.order.symbol)
                      /\ positions[probe.order.symbol].quantity = held.quantity
                      /\ positions[probe.order.symbol].buy_date = held.buy_date
                /\ (/\ held.buy_date.day < probe.current_date.day
                    /\ IsTradingDay(probe.current_date)
                    /\ ~md.is_suspended
                    /\ ~md.is_limit_down) =>
                      /\ last_result # None
                      /\ orders[1].status = "FILLED"
                      /\ ~HasPosition(positions, probe.order.symbol)

\* C2 witness: a sell validated in the morning of the day whose afternoon is
\* the position's buy_date, and rejected
C2_Witness ==
    /\ probe.op = "validate_order"
    /\ probe.order.side = "SELL"
    /\ GetPosition(probe.positions, probe.order.symbol) # None
    /\ probe.positions[probe.order.symbol].buy_date.day = probe.current_date.day
    /\ probe.positions[probe.order.symbol].buy_date.tod > probe.current_date.tod
    /\ IsTradingDay(probe.current_date)
    /\ ~probe.market_data.is_suspended
    /\ ~probe.market_data.is_limit_down
    /\ probe.order.quantity <= probe.positions[probe.order.symbol].quantity
    /\ ~probe.result.is_valid

\* C10 as stated: on a suspended bar match_order returns None for every
\* order side, quantity and price, and through the engine no trade is
\* created and cash and positions are unchanged.
C10_SuspendedUnchanged ==
    /\ (probe.op = "match_order" /\ probe.market_data.is_suspended) =>
          probe.result = None
    /\ (probe.op = "process_signal" /\ probe.market_data.is_suspended) =>
          /\ trades = <<>>
          /\ last_result = None
          /\ cash = probe.cash
          /\ positions = probe.positions

\* C10 amended: on a suspended bar match_order returns None for every order
\* side, quantity and price, and through the engine no trade is created,
\* cash is unchanged and positions are unchanged except for the held
\* position's mark price, which is set to the bar's close.
C10_SuspendedNoTrade ==
    /\ (probe.op = "match_order" /\ probe.market_data.is_suspended) =>
          probe.result = None
    /\ (probe.op = "process_signal" /\ probe.market_data.is_suspended) =>
          /\ trades = <<>>
          /\ last_result = None
          /\ cash = probe.cash
          /\ positions = UpdatePositionPrices(probe.positions, probe.market_data)

\* C10 witness: a sell signal on a suspended trading day after the buy day,
\* at a close that differs from the position's mark price, was rejected
C10_Witness ==
    /\ probe.op = "process_signal"
    /\ probe.market_data.is_suspended
    /\ last_call.action = -1
    /\ GetPosition(probe.positions, probe.order.symbol) # None
    /\ probe.positions[probe.order.symbol].buy_date.day < probe.current_date.day
    /\ IsTradingDay(probe.current_date)
    /\ probe.positions[probe.order.symbol].current_price # probe.market_data.close
    /\ Len(orders) = 1
    /\ orders[1].status = "REJECTED"

----------------------------------------------------------------------------
(* Properties of the validator and the matching engine called directly
   (SpecRules) *)

\* the bar of the call is inside the new-listing window of its board
InListingWindow ==
    /\ "ipo_date" \in DOMAIN probe.stock_info
    /\ probe.stock_info.ipo_date # None
    /\ \/ /\ probe.market_data.board_type \in {"GEM", "STAR"}
          /\ Cardinality({d \in TradingDays :
                            /\ probe.stock_info.ipo_date.day <= d
                            /\ d <= probe.market_data.date.day}) <= 5
       \/ /\ probe.market_data.board_type \notin {"GEM", "STAR", "BSE", "ST"}
          /\ Cardinality({d \in TradingDays :
                            /\ probe.stock_info.ipo_date.day <= d
                            /\ d <= probe.market_data.date.day}) <= 1

\* the call is a buy on a limit-up bar or a sell on a limit-down bar
AgainstLimit ==
    \/ probe.order.side = "BUY" /\ probe.market_data.is_limit_up
    \/ probe.order.side = "SELL" /\ probe.market_data.is_limit_down

\* validate_order rejected the order for the price limit, match_order left it
\* unmatched
LimitRefused ==
    /\ probe.op = "validate_order" =>
         /\ ~probe.result.is_valid
         /\ IF probe.order.side = "BUY" THEN "limit_up" \in probe.result.errors
            ELSE "limit_down" \in probe.result.errors
    /\ probe.op = "match_order" => probe.result = None

\* C11 as stated: on the mainland market, whose boards all have bands, a buy
\* on a bar flagged is_limit_up and a sell on a bar flagged is_limit_down is
\* rejected by validate_order and left unmatched by match_order
C11_LimitFlagRefuses ==
    (/\ probe.op \in {"validate_order", "match_order"}
     /\ environment.market = "CN"
     /\ AgainstLimit)
        => LimitRefused

\* C11 amended: the same, unless the bar lies inside the new-listing window
\* of its board (the listing day on the main board, the first five trading
\* days on GEM and STAR), where the bands are lifted
C11_LimitFlagRefusesListed ==
    (/\ probe.op \in {"validate_order", "match_order"}
     /\ environment.market = "CN"
     /\ AgainstLimit
     /\ ~InListingWindow)
        => LimitRefused

\* a sell of a stock listed two trading days before, on a limit-down bar,
\* rejected by validate_order
C11_Witness ==
    /\ probe.op = "validate_order"
    /\ environment.market = "CN"
    /\ probe.order.side = "SELL"
    /\ probe.market_data.is_limit_down
    /\ ~probe.market_data.is_suspended
    /\ probe.market_data.board_type = "MAIN"
    /\ "ipo_date" \in DOMAIN probe.stock_info
    /\ probe.stock_info.ipo_date # None
    /\ probe.stock_info.ipo_date.day < probe.market_data.date.day
    /\ "limit_down" \in probe.result.errors

\* C12: on a market without bands (HK, US) get_price_limits returns
\* has_limit false with no upper and no lower limit for every board it is
\* given, and never raises
C12_NoBandsNoLimit ==
    (/\ probe.op = "get_price_limits"
     /\ environment.market \in {"HK", "US"})
        => /\ ~Raises(probe.result)
           /\ probe.result.has_limit = FALSE
           /\ probe.result.upper_limit = None
           /\ probe.result.lower_limit = None

\* the band of the bar of a match_order call that returned a trade
ProbeBand ==
    GetPriceLimits(environment, probe.market_data.prev_close,
                   probe.market_data.board_type, probe.stock_info,
                   probe.market_data.date)

\* C13: the price of a trade is the close moved by the slippage (up for a
\* buy, down for a sell), clipped into [lower, upper] when a band is active
\* and rounded to cents, so with an active band it lies within the band
C13_PriceInBand ==
    (/\ probe.op = "match_order"
     /\ "price" \in DOMAIN probe.result)
        => LET close == probe.market_data.close
               slipped == IF probe.order.side = "BUY"
                              THEN close * (10000 + slippage_bps)
                              ELSE close * (10000 - slippage_bps)
               lower == ProbeBand.lower_limit * 10000
               upper == ProbeBand.upper_limit * 10000
           IN  IF ProbeBand.has_limit
                   THEN /\ probe.result.price
                             = RoundDiv(Max(lower, Min(upper, slipped)), 10000)
                        /\ ProbeBand.lower_limit <= probe.result.price
                        /\ probe.result.price <= ProbeBand.upper_limit
                   ELSE probe.result.price = RoundDiv(slipped, 10000)

\* C14: broker fee = max(amount x commission_rate, min_commission); stamp
\* duty = amount x stamp_tax_rate on a sell, 0 on a buy; transfer fee =
\* amount x 0.00002 for a mainland symbol starting with 6, else 0; currency
\* and settlement fees are zero unless the channel is CONNECT; the total is
\* the sum of the five
C14_FeeBreakdown ==
    probe.op = "_calculate_commission" =>
        LET c == probe.result
            amount == probe.amount
        IN  /\ c.broker_fee
                 = Max((amount \div 100000) * commission_rate, min_commission)
            /\ c.stamp_tax = IF probe.order.side = "SELL"
                                 THEN (amount \div 100000) * stamp_tax_rate
                                 ELSE 0
            /\ c.transfer_fee = IF /\ environment.market = "CN"
                                   /\ probe.order.symbol[1] = "6"
                                    THEN (amount \div 100000) * transfer_fee_rate
                                    ELSE 0
            /\ environment.channel # "CONNECT" =>
                   c.currency_fee = 0 /\ c.settlement_fee = 0
            /\ CommissionTotal(c) = c.broker_fee + c.stamp_tax + c.transfer_fee
                                      + c.currency_fee + c.settlement_fee

\* a sell of a Shanghai symbol through the CONNECT channel of the Hong Kong
\* market, its broker fee above the minimum and its channel fees charged
C14_Witness ==
    /\ probe.op = "_calculate_commission"
    /\ probe.order.side = "SELL"
    /\ environment.channel = "CONNECT"
    /\ probe.result.broker_fee > min_commission
    /\ probe.result.stamp_tax > 0
    /\ probe.result.currency_fee > 0
    /\ probe.result.settlement_fee > 0

----------------------------------------------------------------------------
(* Properties of the RiskManager (SpecRisk) *)

\* the forced orders of the last check_exit_signals call for a symbol
OrdersFor(symbol) ==
    {i \in 1..Len(probe.result) : probe.result[i].symbol = symbol}

\* the last check_exit_signals call found the drawdown at or beyond the line
\* (equities are whole yuan)
DrawdownTriggered ==
    /\ probe.op = "check_exit_signals"
    /\ risk_config.max_drawdown_pct # NoPct
    /\ ((peak_equity - probe.portfolio.total_equity) \div 100000) * 100
          >= risk_config.max_drawdown_pct * (peak_equity \div 100000)

\* C15, the peak: no call lowers peak_equity, and a check_exit_signals call
\* with drawdown protection configured leaves it at the larger of the peak
\* before and the equity it was given
C15_PeakStep ==
    /\ peak_equity' >= peak_equity
    /\ (probe'.op = "check_exit_signals" /\ risk_config.max_drawdown_pct # NoPct)
          => /\ peak_equity' >= probe'.portfolio.total_equity
             /\ peak_equity' \in {peak_equity, probe'.portfolio.total_equity}
    /\ probe'.op = "update_peak_equity"
          => /\ peak_equity' >= probe'.current_equity
             /\ peak_equity' \in {peak_equity, probe'.current_equity}

\* C15, the liquidation: when the drawdown from the peak reaches
\* max_drawdown_pct, the call returns exactly one order per held position,
\* for its full quantity and with reason drawdown_protection, and no other
C15_Liquidation ==
    DrawdownTriggered =>
        /\ \A s \in DOMAIN probe.portfolio.positions :
             /\ Cardinality(OrdersFor(s)) = 1
             /\ \A i \in OrdersFor(s) :
                  probe.result[i].shares = probe.portfolio.positions[s].shares
        /\ \A i \in 1..Len(probe.result) :
             /\ probe.result[i].symbol \in DOMAIN probe.portfolio.positions
             /\ probe.result[i].reason = "drawdown_protection"

ValueYuan(shares, price) == (shares * price) \div 100

\* C17: check_order_risk rejects exactly when the order would push the
\* symbol's position value above max_position_pct x total_equity or the
\* value of all positions above max_total_exposure x total_equity, and
\* passes otherwise; an order breaking the single-position limit is rejected
\* with that reason
C17_OrderRisk ==
    probe.op = "check_order_risk" =>
        LET order == probe.order
            portfolio == probe.portfolio
            equity == portfolio.total_equity \div 100000
            held == IF order.symbol \in DOMAIN portfolio.positions
                        THEN portfolio.positions[order.symbol].shares ELSE 0
            position_value == ValueYuan(held + order.shares, order.price)
            total_value ==
                ValueYuan(order.shares, order.price)
                  + SumOver([s \in DOMAIN portfolio.positions |->
                               ValueYuan(portfolio.positions[s].shares,
                                         IF s \in DOMAIN portfolio.current_prices
                                             THEN portfolio.current_prices[s]
                                             ELSE portfolio.positions[s].cost_price)],
                            DOMAIN portfolio.positions)
            over_position ==
                position_value * 100 > risk_config.max_position_pct * equity
            over_exposure ==
                total_value * 100 > risk_config.max_total_exposure * equity
        IN  /\ probe.result.status = "rejected" <=> (over_position \/ over_exposure)
            /\ probe.result.status \in {"rejected", "passed"}
            /\ probe.result.status = "rejected" => probe.result.reason # "none"
            /\ over_position => probe.result.reason = "position_limit"
            /\ (~over_position /\ over_exposure)
                   => probe.result.reason = "exposure_limit"

\* an order that breaks both limits, rejected for the single-position limit
C17_Witness ==
    /\ probe.op = "check_order_risk"
    /\ probe.result.reason = "position_limit"
    /\ ~CheckExposureLimit(risk_config, probe.order, probe.portfolio)
    /\ probe.portfolio.positions # EmptyDict

----------------------------------------------------------------------------
(* Properties of the grid search (SpecSearch) *)

\* the results recorded for the combination of two parameter values
EntriesFor(x_val, y_val) ==
    {k \in 1..Len(all_results) :
        /\ all_results[k].params[param_grid[1].name] = x_val
        /\ all_results[k].params[param_grid[2].name] = y_val}

\* the values of a list, and whether the list is in ascending order
Values(list) == {list[k] : k \in 1..Len(list)}
Ascending(list) == \A k \in 1..Len(list) - 1 : list[k] <= list[k + 1]

\* C18: every pass of the loop records one entry, whatever the backtest did;
\* on a grid of two parameters with m and n values the search returns m*n
\* results, one per combination, total_combinations = m*n, and a heatmap of
\* n rows (the sorted values of the second parameter) of m columns (the sorted
\* values of the first); on a grid of any other number of parameters it
\* returns no heatmap
C18_GridShape ==
    /\ Len(all_results) = combo_index
    /\ (search_state = "returned" /\ Len(param_grid) # 2)
          => search_result.heatmap_data = None
    /\ (search_state = "returned" /\ Len(param_grid) = 2) =>
          LET m == Len(param_grid[1].values)
              n == Len(param_grid[2].values)
              heatmap == search_result.heatmap_data
          IN  /\ Len(search_result.all_results) = m * n
              /\ search_result.total_combinations = m * n
              /\ \A x \in Values(param_grid[1].values),
                    y \in Values(param_grid[2].values) :
                     Cardinality(EntriesFor(x, y)) = 1
              /\ heatmap # None
              /\ Len(heatmap.z_values) = n
              /\ \A row \in 1..n : Len(heatmap.z_values[row]) = m
              /\ Len(heatmap.x_values) = m /\ Len(heatmap.y_values) = n
              /\ Values(heatmap.x_values) = Values(param_grid[1].values)
              /\ Values(heatmap.y_values) = Values(param_grid[2].values)
              /\ Ascending(heatmap.x_values) /\ Ascending(heatmap.y_values)

\* a returned search of the 2 x 3 grid with a combination that raised, one
\* that was constrained out and one that kept its score
C18_Witness ==
    /\ search_state = "returned"
    /\ Len(param_grid) = 2
    /\ \E k \in 1..Len(all_results) : "error" \in DOMAIN all_results[k]
    /\ \E k \in 1..Len(all_results) :
         /\ "metrics" \in DOMAIN all_results[k]
         /\ all_results[k].score = NegInf
    /\ \E k \in 1..Len(all_results) : all_results[k].score > 0

\* a constraint of the caller is violated by the metrics: the metric named
\* after the min_ or max_ prefix is below the min bound or above the max bound
Violates(metrics) ==
    /\ constraints # None
    /\ \E c \in DOMAIN constraints :
         /\ Tail(c) \in DOMAIN metrics
         /\ \/ Head(c) = "min_" /\ metrics[Tail(c)] < constraints[c]
            \/ Head(c) = "max_" /\ metrics[Tail(c)] > constraints[c]

\* the heatmap cell of a combination of a two-parameter grid
CellOf(params) ==
    LET heatmap == search_result.heatmap_data
        col == CHOOSE x \in 1..Len(heatmap.x_values) :
                   heatmap.x_values[x] = params[heatmap.x_param]
        row == CHOOSE y \in 1..Len(heatmap.y_values) :
                   heatmap.y_values[y] = params[heatmap.y_param]
    IN  heatmap.z_values[row][col]

Combinations == GenerateCombinations(param_grid)

\* C20: a combination whose backtest raises is recorded with score -inf and
\* the error text, no exception leaves optimize, and the search returns only
\* after every combination has its record, in the order of the grid
C20_FailureRecorded ==
    /\ search_state \in {"loop", "returned"}
    /\ (probe.op = "_run_single_backtest" /\ probe.outcome.raised) =>
          /\ Len(all_results) = combo_index
          /\ all_results[combo_index].params = probe.params
          /\ all_results[combo_index].score = NegInf
          /\ "error" \in DOMAIN all_results[combo_index]
          /\ all_results[combo_index].error = probe.outcome.error
    /\ search_state = "returned" =>
          /\ Len(search_result.all_results) = Len(Combinations)
          /\ \A k \in 1..Len(Combinations) :
               search_result.all_results[k].params = Combinations[k]

\* a returned search whose first combination raised and whose best is a
\* later one
C20_Witness ==
    /\ search_state = "returned"
    /\ "error" \in DOMAIN all_results[1]
    /\ search_result.best_params # None
    /\ search_result.best_score > 0
    /\ \E k \in 2..Len(all_results) : "error" \in DOMAIN all_results[k]

----------------------------------------------------------------------------
(* Further properties of the engine driven directly (Spec) *)

\* a call has just filled an order: the trade it added
Filled == Len(trades') = Len(trades) + 1
NewTrade == trades'[Len(trades')]

\* C29: every fill changes cash by the trade amount and the fee total counted
\* once: a buy lowers cash by amount + Commission.total, a sell raises it by
\* amount - Commission.total (the total being the trade's commission, which
\* holds the stamp duty)
C29_FeesCountedOnce ==
    [][Filled =>
          IF NewTrade.side = "BUY"
              THEN cash' = cash - (NewTrade.amount + NewTrade.commission)
              ELSE cash' = cash + (NewTrade.amount - NewTrade.commission)]_vars

----------------------------------------------------------------------------
(* Properties of a buy signal in each market (SpecRules) *)

\* C26: the quantity of every buy order the engine creates is a positive
\* whole multiple of the lot size get_lot_size gives for its symbol in the
\* environment's market, namely the affordable quantity (usable cash, the
\* cash less twice the estimated commission, divided by the price) rounded
\* down to a lot
C26_WholeLots ==
    \A i \in 1..Len(orders) :
        orders[i].side = "BUY" =>
            LET lot == GetLotSize(orders[i].symbol, environment.market)
                usable_cash == initial_capital - 2 * min_commission
                cost_of(q) == q * PriceUnits(orders[i].limit_price)
            IN  /\ orders[i].quantity > 0
                /\ orders[i].quantity % lot = 0
                /\ cost_of(orders[i].quantity) <= usable_cash
                /\ cost_of(orders[i].quantity + lot) > usable_cash

----------------------------------------------------------------------------
(* Further properties of the grid search (SpecSearch) *)

\* C28: when optimize has returned, best_score is the largest score of
\* all_results, and best_params and best_result are the parameters and the
\* BacktestResult of an entry of all_results with that score, whatever the
\* backtests did
C28_BestIsMax ==
    search_state = "returned" =>
        /\ \A k \in 1..Len(all_results) :
             all_results[k].score <= search_result.best_score
        /\ \E k \in 1..Len(all_results) :
             /\ all_results[k].score = search_result.best_score
             /\ search_result.best_params = all_results[k].params
             /\ "metrics" \in DOMAIN all_results[k]
             /\ search_result.best_result # None
             /\ search_result.best_result.metrics = all_results[k].metrics

----------------------------------------------------------------------------
(* WalkForwardValidator.validate, from its first statement to its return *)

\* the windows _generate_periods is followed through
MaxWindows == 6

\* train_period_months, test_period_months and step_months
WalkMonths == 0..2

\* the dates of the market data: daily bars of 46, 101 and 131 days, 131
\* days with days 31..70 missing, and 101 bars stamped at noon
MarketDates ==
    {{ToDatetime(d) : d \in 0..45},
     {ToDatetime(d) : d \in 0..100},
     {ToDatetime(d) : d \in 0..130},
     {ToDatetime(d) : d \in (0..130) \ (31..70)},
     {ToDatetime(d) + 1 : d \in 0..100}}

WalkMetrics(sharpe, return) ==
    [m \in {SharpeName, ReturnName} |-> IF m = SharpeName THEN sharpe ELSE return]

WalkOutcomes ==
    {[train |-> TrainRaises, test |-> TestRaises],
     [train |-> TrainWithoutBest, test |-> TestResult(WalkMetrics(1000, 100))],
     [train |-> TrainResult(WalkMetrics(2000, 100)), test |-> TestRaises],
     [train |-> TrainResult(WalkMetrics(2000, 100)),
      test |-> TestResult(WalkMetrics(1000, 0 - 50))],
     [train |-> TrainResult(WalkMetrics(2000, 100)),
      test |-> TestResult(WalkMetrics(2000, 100))],
     [train |-> TrainResult(EmptyDict),
      test |-> TestResult(WalkMetrics(1000, 0 - 50))]}

InitWalk ==
    /\ environment \in Environments
    /\ initial_capital \in Capitals
    /\ slippage_bps = 5
    /\ risk_config = None
    /\ cash = initial_capital
    /\ positions = EmptyDict
    /\ orders = <<>>
    /\ trades = <<>>
    /\ equity_history = EmptyDict
    /\ last_call = None
    /\ last_result = None
    /\ risk_verdicts = <<>>
    /\ equity_records = <<>>
    /\ df_rows = <<>>
    /\ run_state = "idle"
    /\ peak_equity = initial_capital
    /\ probe = [op |-> "none"]
    /\ SearchIdle
    /\ train_period_months \in WalkMonths
    /\ test_period_months \in WalkMonths
    /\ step_months \in WalkMonths
    /\ data_dates \in MarketDates
    /\ current_start = MinOf(data_dates)
    /\ periods_config = <<>>
    /\ period_index = 0
    /\ periods = <<>>
    /\ walk_log = <<>>
    /\ walk_state = "generating"
    /\ walk_result = None
    /\ NoResult

\* one pass of the while loop of _generate_periods
GeneratePeriod ==
    /\ walk_state = "generating"
    /\ Len(periods_config) < MaxWindows
    /\ \E out \in {GeneratePeriodsStep(current_start, MaxOf(data_dates),
                                       train_period_months, test_period_months,
                                       step_months)} :
         IF out.break
             THEN /\ walk_state' = "loop"
                  /\ UNCHANGED <<current_start, periods_config>>
         ELSE /\ periods_config' = Append(periods_config, out.period)
              /\ current_start' = out.current_start
              /\ UNCHANGED walk_state
    /\ UNCHANGED <<engine_config, engine_state, run_vars, probe, peak_equity,
                   search_vars, result_vars, train_period_months, test_period_months,
                   step_months, data_dates, period_index, periods, walk_log,
                   walk_result>>

\* one pass of the loop of validate: _validate_period on the next window
ValidatePeriodCall ==
    /\ walk_state = "loop"
    /\ period_index < Len(periods_config)
    /\ \E outcome \in WalkOutcomes :
         \E out \in {ValidatePeriod(data_dates, periods_config[period_index + 1],
                                    period_index + 1, outcome)} :
            /\ periods' = IF out # None THEN Append(periods, out) ELSE periods
            /\ walk_log' = Append(walk_log, outcome)
    /\ period_index' = period_index + 1
    /\ UNCHANGED <<engine_config, engine_state, run_vars, probe, peak_equity,
                   search_vars, result_vars, train_period_months, test_period_months,
                   step_months, data_dates, current_start, periods_config,
                   walk_state, walk_result>>

\* after the loop: the overall metrics and the WalkForwardResult
ValidateReturn ==
    /\ walk_state = "loop"
    /\ period_index = Len(periods_config)
    /\ walk_state' = "returned"
    /\ walk_result' = WalkForwardResult(periods)
    /\ UNCHANGED <<engine_config, engine_state, run_vars, probe, peak_equity,
                   search_vars, result_vars, train_period_months, test_period_months,
                   step_months, data_dates, current_start, periods_config,
                   period_index, periods, walk_log>>

NextWalk ==
    \/ GeneratePeriod
    \/ ValidatePeriodCall
    \/ ValidateReturn

SpecWalk == InitWalk /\ [][NextWalk]_vars

\* validate runs on: each statement that can be executed is executed
SpecWalkLive == SpecWalk /\ WF_vars(NextWalk)

----------------------------------------------------------------------------
(* Properties of the walk-forward validation (SpecWalk, SpecWalkLive) *)

\* C22: every window _generate_periods produces has
\* train_start < train_end < test_start <= test_end, and its test_end is not
\* after the last date of the market data
C22_WindowShape ==
    \A i \in 1..Len(periods_config) :
        LET w == periods_config[i]
        IN  /\ w.train_start < w.train_end
            /\ w.train_end < w.test_start
            /\ w.test_start <= w.test_end
            /\ w.test_end <= Strftime(MaxOf(data_dates))

\* C30: _generate_periods leaves its loop, whatever the months and the dates
C30_GenerationTerminates == <>(walk_state # "generating")

\* window i has data in both slices and both of its backtests gave a result
Evaluated(i) ==
    /\ FilterDataByDate(data_dates, periods_config[i].train_start,
                        periods_config[i].train_end) # {}
    /\ FilterDataByDate(data_dates, periods_config[i].test_start,
                        periods_config[i].test_end) # {}
    /\ ~walk_log[i].train.raised
    /\ walk_log[i].train.best_result # None
    /\ ~walk_log[i].test.raised

KeptWindows == {i \in 1..Len(walk_log) : Evaluated(i)}

\* the average of f over the windows kept
KeptAverage(f) == RoundDiv(SumOver(f, KeptWindows), Cardinality(KeptWindows))

\* the windows gone through so far: periods holds exactly the evaluated ones,
\* in order, with their own metrics; the result is built from them alone
C23_FailedWindowsLeftOut ==
    /\ Len(walk_log) = period_index
    /\ Len(periods) = Cardinality(KeptWindows)
    /\ \A k \in 1..Len(periods) :
         /\ periods[k].period_id \in KeptWindows
         /\ k > 1 => periods[k - 1].period_id < periods[k].period_id
         /\ periods[k].train_metrics =
              walk_log[periods[k].period_id].train.best_result.metrics
         /\ periods[k].test_metrics = walk_log[periods[k].period_id].test.metrics
    /\ walk_state = "returned" =>
         /\ period_index = Len(periods_config)
         /\ walk_result.periods = periods
         /\ walk_result.total_periods = Cardinality(KeptWindows)
         /\ IF KeptWindows = {}
                THEN /\ walk_result.overall_metrics = EmptyDict
                     /\ walk_result.is_overfitting = FALSE
            ELSE /\ walk_result.overall_metrics.avg_train_sharpe =
                      KeptAverage([i \in KeptWindows |->
                          Get(walk_log[i].train.best_result.metrics, SharpeName, 0)])
                 /\ walk_result.overall_metrics.avg_test_sharpe =
                      KeptAverage([i \in KeptWindows |->
                          Get(walk_log[i].test.metrics, SharpeName, 0)])
                 /\ walk_result.overall_metrics.avg_train_return =
                      KeptAverage([i \in KeptWindows |->
                          Get(walk_log[i].train.best_result.metrics, ReturnName, 0)])
                 /\ walk_result.overall_metrics.avg_test_return =
                      KeptAverage([i \in KeptWindows |->
                          Get(walk_log[i].test.metrics, ReturnName, 0)])

\* C23: validate returns a result whatever the windows do: a window whose
\* backtests raise or whose slices are empty is in neither periods nor the
\* averages, the other windows are evaluated, total_periods counts the
\* windows kept, and with none kept overall_metrics is empty and
\* is_overfitting false
C23_ValidateReturns ==
    /\ []C23_FailedWindowsLeftOut
    /\ <>(walk_state = "returned")

----------------------------------------------------------------------------
(* The two sweeps on the same candidates in two orders *)

\* GridSearchOptimizer.optimize from its first statement to its return, the
\* backtest of each combination doing what outcome_of says
RECURSIVE OptimizeLoop(_, _, _, _, _)
OptimizeLoop(combinations, k, cons, outcome_of, acc) ==
    IF k > Len(combinations) THEN acc
    ELSE OptimizeLoop(combinations, k + 1, cons, outcome_of,
                      OptimizeStep(acc.all_results, acc.best, cons,
                                   combinations[k], outcome_of[combinations[k]]))

Optimize(grid, cons, outcome_of) ==
    LET out == OptimizeLoop(GenerateCombinations(grid), 1, cons, outcome_of,
                            [all_results |-> <<>>,
                             best |-> [score |-> NegInf, params |-> None,
                                       result |-> None],
                             aborted |-> FALSE])
    IN  [best_params |-> out.best.params,
         best_score |-> out.best.score,
         best_result |-> out.best.result,
         all_results |-> out.all_results,
         heatmap_data |-> GenerateHeatmapData(grid, out.all_results),
         total_combinations |-> Len(GenerateCombinations(grid))]

\* the orders a list can be written in
OrdersOf(s) ==
    {t \in [DOMAIN s -> {s[i] : i \in DOMAIN s}] :
        \A i \in DOMAIN s : \E j \in DOMAIN s : t[j] = s[i]}

\* the grids with the values of each parameter of grid in some order
RECURSIVE Reorderings(_)
Reorderings(grid) ==
    IF grid = <<>> THEN {<<>>}
    ELSE {<<[name |-> Head(grid).name, values |-> v]>> \o rest :
            v \in OrdersOf(Head(grid).values),
            rest \in Reorderings(Tail(grid))}

OrderGrids ==
    {<<[name |-> "short_period", values |-> <<5, 10, 15>>]>>,
     <<[name |-> "short_period", values |-> <<5, 10>>],
       [name |-> "long_period", values |-> <<20, 30>>]>>}

\* the windows kept by a validation: three, each with the metrics of one of
\* the evaluations that give a result
KeptOutcomes ==
    {o \in WalkOutcomes :
        ~o.train.raised /\ o.train.best_result # None /\ ~o.test.raised}

PeriodOf(id, outcome) ==
    [period_id |-> id,
     train_metrics |-> outcome.train.best_result.metrics,
     test_metrics |-> outcome.test.metrics]

PeriodLists ==
    {[i \in 1..3 |-> PeriodOf(i, o[i])] : o \in [1..3 -> KeptOutcomes]}

InitOrder ==
    /\ environment \in Environments
    /\ initial_capital \in Capitals
    /\ slippage_bps = 5
    /\ risk_config = None
    /\ cash = initial_capital
    /\ positions = EmptyDict
    /\ orders = <<>>
    /\ trades = <<>>
    /\ equity_history = EmptyDict
    /\ last_call = None
    /\ last_result = None
    /\ risk_verdicts = <<>>
    /\ equity_records = <<>>
    /\ df_rows = <<>>
    /\ run_state = "idle"
    /\ peak_equity = initial_capital
    /\ probe = [op |-> "none"]
    /\ SearchIdle
    /\ WalkIdle
    /\ NoResult

\* optimize on a grid and on the same grid with its values written in
\* another order, the backtest of a combination giving the same both times
OptimizeCall ==
    /\ probe.op = "none"
    /\ \E grid \in OrderGrids :
         \E reordered \in Reorderings(grid), cons \in ConstraintChoices :
            \E outcome_of \in [{GenerateCombinations(grid)[k] :
                                  k \in 1..Len(GenerateCombinations(grid))}
                               -> Outcomes] :
               probe' = [op |-> "optimize",
                         param_grid |-> grid,
                         reordered |-> reordered,
                         constraints |-> cons,
                         first |-> Optimize(grid, cons, outcome_of),
                         second |-> Optimize(reordered, cons, outcome_of)]
    /\ UNCHANGED <<engine_config, engine_state, run_vars, peak_equity,
                   search_vars, walk_vars, result_vars>>

\* _calculate_overall_metrics on the windows kept and on the same windows in
\* another order
CalculateOverallMetricsCall ==
    /\ probe.op = "none"
    /\ \E kept \in PeriodLists :
         \E reordered \in OrdersOf(kept) :
            probe' = [op |-> "_calculate_overall_metrics",
                      periods |-> kept,
                      reordered |-> reordered,
                      first |-> CalculateOverallMetrics(kept),
                      second |-> CalculateOverallMetrics(reordered)]
    /\ UNCHANGED <<engine_config, engine_state, run_vars, peak_equity,
                   search_vars, walk_vars, result_vars>>

NextOrder ==
    \/ OptimizeCall
    \/ CalculateOverallMetricsCall

SpecOrder == InitOrder /\ [][NextOrder]_vars

----------------------------------------------------------------------------
(* TradingCalendar.next_trading_day and prev_trading_day, pass by pass *)

\* the calendars, dates and skips of the calls
Calendars == {"weekday", "sparse"}
QueryDays ==
    {1, 2, 34, 35, 36, 402, FallbackFirstDay + 2, FallbackFirstDay + 3,
     FallbackLastDay - 1, FallbackLastDay, FallbackFirstDay - 364}
Skips == {1, 2, 3, 260, 261, 262}

InitCalendar ==
    /\ environment \in Environments
    /\ initial_capital \in Capitals
    /\ slippage_bps = 5
    /\ risk_config = None
    /\ cash = initial_capital
    /\ positions = EmptyDict
    /\ orders = <<>>
    /\ trades = <<>>
    /\ equity_history = EmptyDict
    /\ last_call = None
    /\ last_result = None
    /\ risk_verdicts = <<>>
    /\ equity_records = <<>>
    /\ df_rows = <<>>
    /\ run_state = "idle"
    /\ peak_equity = initial_capital
    /\ probe = [op |-> "none"]
    /\ SearchIdle
    /\ WalkIdle
    /\ NoResult

\* next_trading_day(date, skip) up to its loop
NextTradingDayCall ==
    /\ probe.op = "none"
    /\ \E calendar \in Calendars, day \in QueryDays, tod \in TimesOfDay,
          skip \in Skips :
         probe' = [op |-> "next_trading_day",
                   calendar |-> calendar,
                   date |-> [day |-> day, tod |-> tod],
                   skip |-> skip,
                   date_normalized |-> Normalize([day |-> day, tod |-> tod]),
                   next_date |-> Normalize([day |-> day, tod |-> tod]) + 1,
                   count |-> 0,
                   state |-> "loop"]
    /\ UNCHANGED <<engine_config, engine_state, run_vars, peak_equity,
                   search_vars, walk_vars, result_vars>>

\* prev_trading_day(date, skip) up to its loop
PrevTradingDayCall ==
    /\ probe.op = "none"
    /\ \E calendar \in Calendars, day \in QueryDays, tod \in TimesOfDay,
          skip \in Skips :
         probe' = [op |-> "prev_trading_day",
                   calendar |-> calendar,
                   date |-> [day |-> day, tod |-> tod],
                   skip |-> skip,
                   date_normalized |-> Normalize([day |-> day, tod |-> tod]),
                   next_date |-> Normalize([day |-> day, tod |-> tod]) - 1,
                   count |-> 0,
                   state |-> "loop"]
    /\ UNCHANGED <<engine_config, engine_state, run_vars, peak_equity,
                   search_vars, walk_vars, result_vars>>

NextTradingDayStep ==
    /\ probe.op = "next_trading_day"
    /\ probe.state = "loop"
    /\ probe' = NextTradingDayPass(probe)
    /\ UNCHANGED <<engine_config, engine_state, run_vars, peak_equity,
                   search_vars, walk_vars, result_vars>>

PrevTradingDayStep ==
    /\ probe.op = "prev_trading_day"
    /\ probe.state = "loop"
    /\ probe' = PrevTradingDayPass(probe)
    /\ UNCHANGED <<engine_config, engine_state, run_vars, peak_equity,
                   search_vars, walk_vars, result_vars>>

NextCalendar ==
    \/ NextTradingDayCall
    \/ PrevTradingDayCall
    \/ NextTradingDayStep
    \/ PrevTradingDayStep

SpecCalendar == InitCalendar /\ [][NextCalendar]_vars

\* the loops run on: a pass that can be made is made
SpecCalendarLive == SpecCalendar /\ WF_vars(NextCalendar)

\* the trading days from a to b
TradingDaysIn(calendar, a, b) == {d \in a..b : InTradingDays(calendar, d)}

\* the trading days within a year after, and before, the date of the call
YearAfter == TradingDaysIn(probe.calendar, probe.date.day + 1,
                           probe.date.day + SearchLimitDays)
YearBefore == TradingDaysIn(probe.calendar, probe.date.day - SearchLimitDays,
                            probe.date.day - 1)
InSearch == probe.op \in {"next_trading_day", "prev_trading_day"}
Ended == InSearch /\ probe.state # "loop"

\* a call that has ended gave the skip-th trading day after (before) the date
\* if the year after (before) it has that many, and raised if not
C24_Answer ==
    /\ (probe.op = "next_trading_day" /\ probe.state = "returned") =>
         /\ probe.next_date \in YearAfter
         /\ Cardinality({d \in YearAfter : d <= probe.next_date}) = probe.skip
    /\ (probe.op = "next_trading_day" /\ probe.state = "raised") =>
         Cardinality(YearAfter) < probe.skip
    /\ (probe.op = "prev_trading_day" /\ probe.state = "returned") =>
         /\ probe.next_date \in YearBefore
         /\ Cardinality({d \in YearBefore : d >= probe.next_date}) = probe.skip
    /\ (probe.op = "prev_trading_day" /\ probe.state = "raised") =>
         Cardinality(YearBefore) < probe.skip

\* C24: next_trading_day returns the skip-th trading day strictly after the
\* date and prev_trading_day the skip-th strictly before it when that day is
\* at most 365 days away, they raise when it is not, and their loops end
C24_TradingDaySearch ==
    /\ []C24_Answer
    /\ [](InSearch => <>Ended)

\* a third trading day found across a weekend, from a date with a time of day
C24_Witness ==
    /\ probe.op = "next_trading_day"
    /\ probe.state = "returned"
    /\ probe.calendar = "weekday"
    /\ probe.skip = 3
    /\ probe.date.tod # 0
    /\ probe.next_date = probe.date.day + 5

----------------------------------------------------------------------------
(* BacktestOrchestrator.run called again on the same orchestrator *)

\* the calls of run on one orchestrator
MaxRuns == 2

\* run() up to its loop, on an orchestrator whose run has returned
RunCall ==
    /\ run_state = "returned"
    /\ Len(run_results) < MaxRuns
    /\ equity_records' = <<>>
    /\ df_rows' = <<>>
    /\ run_state' = "loop"
    /\ UNCHANGED <<engine_config, engine_state, probe, peak_equity, search_vars,
                   walk_vars, result_vars>>

NextRuns ==
    \/ RunBar
    \/ RunReturn
    \/ RunCall

SpecRuns == InitRun /\ [][NextRuns]_vars

\* what the holder of the k-th result reads in it
ReadResult(k) ==
    [trades |-> trades,
     equity_curve |-> run_results[k].equity_curve,
     metrics |-> run_results[k].metrics,
     metadata |-> metadata]

====
